---- MODULE Spec2Model ----
(***************************************************************************)
(* Kael-Music: the synchronized lyrics view.  A model of the spring        *)
(* integrator (services/lyricsService.ts, SpringSystem), the lyrics        *)
(* physics hook (useLyricsPhysics) and the frame renderer / click          *)
(* resolution of LyricsView.                                               *)
(*                                                                         *)
(* Numbers.  The program computes in IEEE doubles; the model computes in   *)
(* fixed point and rounds every product/quotient to the nearest unit:      *)
(*   positions, velocities   1/1000 px, 1/1000 px/s                        *)
(*   scale values            1/10000                                       *)
(*   karaoke progress        1/10000                                       *)
(*   times                   1 ms                                          *)
(*   stiffness               1          damping  1/100     mass  1/10      *)
(*   precision               the unit of the channel it is used on         *)
(***************************************************************************)
EXTENDS Integers, Sequences, FiniteSets, TLC

VARIABLES
    system,         \* SpringSystem: [current, target, velocity, config], maps keyed by channel
    moving,         \* the value returned by the last SpringSystem.update
    lyrics,         \* the lyrics prop: sequence of [time, isMetadata]
    currentTime,    \* the currentTime prop (ms)
    activeIndex,    \* useState(-1) of useLyricsPhysics
    linesState,     \* Map<number, LinePhysicsState>: index -> [posY, scale]
    scrollState,    \* the scrollState ref of useLyricsPhysics
    now,            \* performance.now() (ms)
    op,             \* the operation that ran last, with what it observed
    steps,          \* how many bounded operations have run
    pinned,         \* history: the channels that came to rest and have had no
                    \* setTarget/setValue since
    layout,         \* [lineHeights, containerHeight, variant]: the measured line
                    \* heights, window.innerHeight * 0.6, and which LyricsView is built
    visualTime,     \* visualTimeRef.current, a JS number
    player,         \* [isPlaying, playbackRate, position, lastDelivery]: the props
                    \* from the audio element and the element's own clock
    seekCalls,      \* the onSeekRequest calls made by the last handleClick
    lyricLines,     \* the lyricLines state of the view: the measured line objects
    viewport,       \* [containerWidth, height, isMobile]: the observed container
                    \* width, the canvas height handed to render, the isMobile state
    drawn,          \* the indices of the lines the last render drew
    cache           \* a size-limited LRU cache of services/cache.ts: [entries, totalSize],
                    \* entries the Map's [key, size] pairs in insertion order

springVars == <<system, moving>>
viewVars   == <<lyricLines, viewport, drawn>>
hookVars   == <<lyrics, currentTime, activeIndex, linesState, scrollState, now,
                layout, visualTime, player, seekCalls, viewVars>>
vars       == <<system, moving, lyrics, currentTime, activeIndex, linesState,
                scrollState, now, op, steps, pinned,
                layout, visualTime, player, seekCalls, lyricLines, viewport, drawn, cache>>

----------------------------------------------------------------------------
(* Arithmetic *)

Abs(x) == IF x < 0 THEN -x ELSE x
Min(a, b) == IF a <= b THEN a ELSE b
Max(a, b) == IF a >= b THEN a ELSE b

\* a*n/d rounded to the nearest integer (ties up), d > 0, n >= 0; the product is
\* split so that no intermediate leaves the 32-bit range
MulDiv(a, n, d) ==
    LET q == a \div d
        r == a % d
    IN  q * n + ((2 * r * n + d) \div (2 * d))

----------------------------------------------------------------------------
(* services/cache.ts: createSizeLimitedLRU *)

\* new Map() and totalSize = 0
NewCache == [entries |-> <<>>, totalSize |-> 0]

----------------------------------------------------------------------------
(* services/lyricsService.ts: SpringConfig and the presets *)

\* precision?: number  is <<>> when absent and <<p>> when given
Config(m, k, c, p) == [mass |-> m, stiffness |-> k, damping |-> c, precision |-> p]

DEFAULT_SPRING == Config(10, 120, 2000, <<10>>)
CAMERA_SPRING  == Config(10, 100, 2500, <<100>>)

\* p.precision ?? 0.01
DefaultPrecision == 10
PrecisionOf(p) == IF p.precision = <<>> THEN DefaultPrecision ELSE p.precision[1]

\* StepChannel without the rest detection
StepChannelNoSnap(p, cur, tgt, vel, dt) ==
    LET displacement == cur - tgt
        springForce  == -(p.stiffness * displacement)
        dampingForce == -MulDiv(vel, p.damping, 100)
        acceleration == MulDiv(springForce + dampingForce, 10, p.mass)
        newVelocity  == vel + MulDiv(acceleration, dt, 1000)
        newPosition  == cur + MulDiv(newVelocity, dt, 1000)
    IN  [current |-> newPosition, velocity |-> newVelocity, moving |-> TRUE]

\* StepChannel with the rest position left where the integration put it
StepChannelDriftingRest(p, cur, tgt, vel, dt) ==
    LET displacement == cur - tgt
        springForce  == -(p.stiffness * displacement)
        dampingForce == -MulDiv(vel, p.damping, 100)
        acceleration == MulDiv(springForce + dampingForce, 10, p.mass)
        newVelocity  == vel + MulDiv(acceleration, dt, 1000)
        newPosition  == cur + MulDiv(newVelocity, dt, 1000)
        precision    == PrecisionOf(p)
        isNearRest   == Abs(newVelocity) < precision /\ Abs(newPosition - tgt) < precision
    IN  IF isNearRest
        THEN [current |-> tgt + 1, velocity |-> 0, moving |-> FALSE]
        ELSE [current |-> newPosition, velocity |-> newVelocity, moving |-> TRUE]

(* One channel of SpringSystem.update: the next [current, velocity, moving]. *)
StepChannel(p, cur, tgt, vel, dt) ==
    LET displacement == cur - tgt
        springForce  == -(p.stiffness * displacement)
        dampingForce == -MulDiv(vel, p.damping, 100)
        acceleration == MulDiv(springForce + dampingForce, 10, p.mass)
        newVelocity  == vel + MulDiv(acceleration, dt, 1000)
        newPosition  == cur + MulDiv(newVelocity, dt, 1000)
        precision    == PrecisionOf(p)
        isNearRest   == Abs(newVelocity) < precision /\ Abs(newPosition - tgt) < precision
    IN  IF isNearRest
        THEN [current |-> tgt, velocity |-> 0, moving |-> FALSE]
        ELSE [current |-> newPosition, velocity |-> newVelocity, moving |-> TRUE]

(* services/lyricsService.ts: class SpringSystem.  The four private records
   are functions whose domains are the keys that are set. *)
Has(f, k) == k \in DOMAIN f
Put(f, k, v) == [x \in DOMAIN f \cup {k} |-> IF x = k THEN v ELSE f[x]]
EmptyMap == [x \in {} |-> 0]

NewSpringSystem(initialValues) ==
    [current  |-> initialValues,
     target   |-> initialValues,
     velocity |-> [k \in DOMAIN initialValues |-> 0],
     config   |-> EmptyMap]

SetTarget(sys, key, value, config) ==
    [current  |-> IF Has(sys.current, key) THEN sys.current ELSE Put(sys.current, key, value),
     target   |-> Put(sys.target, key, value),
     velocity |-> IF Has(sys.velocity, key) THEN sys.velocity ELSE Put(sys.velocity, key, 0),
     config   |-> Put(sys.config, key, config)]

SetValue(sys, key, value) ==
    [sys EXCEPT !.current  = Put(sys.current, key, value),
                !.target   = Put(sys.target, key, value),
                !.velocity = Put(sys.velocity, key, 0)]

SetVelocity(sys, key, value) ==
    [sys EXCEPT !.velocity = Put(sys.velocity, key, value)]

GetCurrent(sys, key) == IF Has(sys.current, key) THEN sys.current[key] ELSE 0

\* what update reads for one key of this.current
ConfigOf(sys, key)   == IF Has(sys.config, key) THEN sys.config[key] ELSE DEFAULT_SPRING
TargetOf(sys, key)   == IF Has(sys.target, key) THEN sys.target[key] ELSE sys.current[key]
VelocityOf(sys, key) == IF Has(sys.velocity, key) THEN sys.velocity[key] ELSE 0

\* StepKey with one config shared by all channels (the first key's)
StepKeySharedConfig(sys, key, dt) ==
    StepChannel(ConfigOf(sys, "scrollY"), sys.current[key], TargetOf(sys, key),
                VelocityOf(sys, key), dt)

StepKey(sys, key, dt) ==
    StepChannel(ConfigOf(sys, key), sys.current[key], TargetOf(sys, key),
                VelocityOf(sys, key), dt)

Update(sys, dt) ==
    [sys EXCEPT
        !.current  = [k \in DOMAIN sys.current |-> StepKey(sys, k, dt).current],
        !.velocity = [k \in DOMAIN sys.velocity \cup DOMAIN sys.current |->
                        IF Has(sys.current, k) THEN StepKey(sys, k, dt).velocity
                        ELSE sys.velocity[k]]]

UpdateMoving(sys, dt) == \E k \in DOMAIN sys.current : StepKey(sys, k, dt).moving

----------------------------------------------------------------------------
(* JS numbers that may be non-finite (visualTime): [k, v] with k one of
   "fin" (v the value), "nan", "inf", "ninf" *)
Fin(v) == [k |-> "fin", v |-> v]
NaN    == [k |-> "nan", v |-> 0]
PosInf == [k |-> "inf", v |-> 0]
NegInf == [k |-> "ninf", v |-> 0]

IsFinite(a) == a.k = "fin"

JsNeg(a) ==
    CASE a.k = "fin"  -> Fin(-a.v)
      [] a.k = "inf"  -> NegInf
      [] a.k = "ninf" -> PosInf
      [] OTHER        -> NaN

JsAdd(a, b) ==
    CASE a.k = "nan" \/ b.k = "nan"     -> NaN
      [] a.k = "fin" /\ b.k = "fin"      -> Fin(a.v + b.v)
      [] a.k = "fin"                     -> b
      [] b.k = "fin"                     -> a
      [] a.k = b.k                       -> a
      [] OTHER                           -> NaN

JsSub(a, b) == JsAdd(a, JsNeg(b))

\* a * (num/den) for a finite factor num/den >= 0
JsScale(a, num, den) ==
    CASE a.k = "fin" -> Fin(MulDiv(a.v, num, den))
      [] a.k = "nan" -> NaN
      [] num = 0     -> NaN
      [] OTHER       -> a

\* Math.abs(a) > limit
JsAbsGreater(a, limit) ==
    CASE a.k = "fin" -> Abs(a.v) > limit
      [] a.k = "nan" -> FALSE
      [] OTHER       -> TRUE

----------------------------------------------------------------------------
(* hooks/useLyricsPhysics *)

RESUME_DELAY_MS == 3000

SCALE_SPRING == Config(10, 120, 2500, <<10>>)

\* floor(sqrt(x)) by bisection on lo..hi
RECURSIVE SqrtIn(_, _, _)
SqrtIn(x, lo, hi) ==
    IF lo >= hi THEN lo
    ELSE LET mid == (lo + hi + 1) \div 2
         IN  IF mid * mid <= x THEN SqrtIn(x, mid, hi) ELSE SqrtIn(x, lo, mid - 1)

RECURSIVE Pow2(_)
Pow2(n) == IF n <= 0 THEN 1 ELSE 2 * Pow2(n - 1)

\* a profile without the fixed loose spring for lines more than 8 ahead
getLinePosSpringNoFar(relativeIndex) ==
    IF relativeIndex <= 0 THEN Config(10, 1200, 6000, <<100>>)
    ELSE LET stiffness == Max(40, MulDiv(300, 1, Pow2(relativeIndex)))
             damping   == SqrtIn(stiffness * 40000, 0, 4000)
         IN  Config(10, stiffness, damping, <<100>>)

getLinePosSpring(relativeIndex) ==
    IF relativeIndex <= 0 THEN Config(10, 1200, 6000, <<100>>)
    ELSE IF relativeIndex > 8 THEN Config(10, 40, 2000, <<100>>)
    ELSE LET stiffness == Max(40, MulDiv(300, 1, Pow2(relativeIndex)))
             damping   == SqrtIn(stiffness * 40000, 0, 4000)
         IN  Config(10, stiffness, damping, <<100>>)

InitScrollState ==
    [isDragging |-> FALSE, lastInteractionTime |-> 0, touchStartY |-> 0,
     touchLastY |-> 0, touchVelocity |-> 0, targetScrollY |-> 0]

NewLineState ==
    [posY  |-> [current |-> 0, velocity |-> 0, target |-> 0],
     scale |-> [current |-> 10000, velocity |-> 0, target |-> 10000]]

\* an initialisation that creates the missing entries and deletes none
InitLineStatesKeepStale(ls, n) ==
    [i \in DOMAIN ls \cup 0 .. (n - 1) |-> IF i \in DOMAIN ls THEN ls[i] ELSE NewLineState]

\* the "Initialize line states" effect for a lyric list of length n
InitLineStates(ls, n) ==
    [i \in 0 .. (n - 1) |-> IF i \in DOMAIN ls THEN ls[i] ELSE NewLineState]

\* the "Calculate Active Index" effect: the idx its loop finds (0-based, -1 if none)
\* a scan whose window excludes its own start time
RECURSIVE FindIdxStrict(_, _, _)
FindIdxStrict(lyr, ct, i) ==
    IF i > Len(lyr) THEN -1
    ELSE IF ct > lyr[i].time /\ (i = Len(lyr) \/ ct < lyr[i + 1].time)
         THEN i - 1
         ELSE FindIdxStrict(lyr, ct, i + 1)

RECURSIVE FindIdx(_, _, _)
FindIdx(lyr, ct, i) ==
    IF i > Len(lyr) THEN -1
    ELSE IF ct >= lyr[i].time /\ (i = Len(lyr) \/ ct < lyr[i + 1].time)
         THEN i - 1
         ELSE FindIdx(lyr, ct, i + 1)

ActiveIndexEffect(lyr, ct, ai) ==
    IF Len(lyr) = 0 THEN ai
    ELSE LET idx == FindIdx(lyr, ct, 1)
         IN  IF idx # -1 /\ idx # ai THEN idx ELSE ai

\* LyricsView: linePositions from the line heights (useMemo)
RECURSIVE LinePosition(_, _, _)
LinePosition(heights, marginY, i) ==
    IF i = 0 THEN 0
    ELSE LinePosition(heights, marginY, i - 1) + heights[i] + marginY

MarginY(variant) == IF variant = "part_003" THEN 12000 ELSE 0

\* linePositions[i] || 0  and  lineHeights[i] || 0  for a 0-based index
LineY(lay, i) ==
    IF i >= 0 /\ i < Len(lay.lineHeights)
    THEN LinePosition(lay.lineHeights, MarginY(lay.variant), i) ELSE 0
LineH(lay, i) ==
    IF i >= 0 /\ i < Len(lay.lineHeights) THEN lay.lineHeights[i + 1] ELSE 0

\* updateSpring: the next [current, velocity, target] of one SpringState
updateSpring(state, config, dt) ==
    LET displacement == state.current - state.target
        springForce  == -(config.stiffness * displacement)
        dampingForce == -MulDiv(state.velocity, config.damping, 100)
        acceleration == MulDiv(springForce + dampingForce, 10, config.mass)
        velocity     == state.velocity + MulDiv(acceleration, dt, 1000)
        current      == state.current + MulDiv(velocity, dt, 1000)
        precision    == IF config.precision = <<>> \/ config.precision = <<0>>
                        THEN DefaultPrecision ELSE config.precision[1]
    IN  IF Abs(velocity) < precision /\ Abs(displacement) < precision
        THEN [current |-> state.target, velocity |-> 0, target |-> state.target]
        ELSE [current |-> current, velocity |-> velocity, target |-> state.target]

computeActiveScrollTarget(ai, lay) ==
    IF ai = -1 THEN 0 ELSE LineY(lay, ai) + MulDiv(LineH(lay, ai), 1, 2)

\* a resume check that still counts the tick at exactly the delay as user scrolling
UserScrollActiveInclusive(ss, t) ==
    ss.isDragging \/ (t - ss.lastInteractionTime) <= RESUME_DELAY_MS

\* a resume check that looks at the time of the last interaction only
UserScrollActiveTimeOnly(ss, t) == (t - ss.lastInteractionTime) < RESUME_DELAY_MS

UserScrollActive(ss, t) ==
    ss.isDragging \/ (t - ss.lastInteractionTime) < RESUME_DELAY_MS

\* a camera step that applies the residual velocity while the pointer is still down
CameraStepCoastInDrag(sys, ss, ai, lay, t, dt, isScrubbing) ==
    LET target == computeActiveScrollTarget(ai, lay)
        inertia == Abs(ss.touchVelocity) > 10000
        coasted == IF inertia
                   THEN SetValue(sys, "scrollY",
                                 GetCurrent(sys, "scrollY") + MulDiv(ss.touchVelocity, dt, 1000))
                   ELSE sys
        sys1 == IF isScrubbing THEN SetValue(sys, "scrollY", target)
                ELSE IF UserScrollActive(ss, t)
                     THEN SetTarget(coasted, "scrollY", GetCurrent(coasted, "scrollY"),
                                    CAMERA_SPRING)
                     ELSE SetTarget(sys, "scrollY", target, CAMERA_SPRING)
    IN  [system      |-> Update(sys1, dt),
         moving      |-> UpdateMoving(sys1, dt),
         scrollState |-> IF ~isScrubbing /\ UserScrollActive(ss, t) /\ inertia
                         THEN [ss EXCEPT !.touchVelocity = MulDiv(ss.touchVelocity, 92, 100)]
                         ELSE ss,
         mode        |-> IF isScrubbing THEN "scrub"
                         ELSE IF UserScrollActive(ss, t) THEN "user" ELSE "auto"]

\* updatePhysics, part 1: the camera.  [system, scrollState, moving, mode]
CameraStep(sys, ss, ai, lay, t, dt, isScrubbing) ==
    LET target == computeActiveScrollTarget(ai, lay)
        inertia == ~ss.isDragging /\ Abs(ss.touchVelocity) > 10000
        coasted == IF inertia
                   THEN SetValue(sys, "scrollY",
                                 GetCurrent(sys, "scrollY") + MulDiv(ss.touchVelocity, dt, 1000))
                   ELSE sys
        sys1 == IF isScrubbing THEN SetValue(sys, "scrollY", target)
                ELSE IF UserScrollActive(ss, t)
                     THEN SetTarget(coasted, "scrollY", GetCurrent(coasted, "scrollY"),
                                    CAMERA_SPRING)
                     ELSE SetTarget(sys, "scrollY", target, CAMERA_SPRING)
    IN  [system      |-> Update(sys1, dt),
         moving      |-> UpdateMoving(sys1, dt),
         scrollState |-> IF ~isScrubbing /\ UserScrollActive(ss, t) /\ inertia
                         THEN [ss EXCEPT !.touchVelocity = MulDiv(ss.touchVelocity, 92, 100)]
                         ELSE ss,
         mode        |-> IF isScrubbing THEN "scrub"
                         ELSE IF UserScrollActive(ss, t) THEN "user" ELSE "auto"]

\* updatePhysics, part 2: one line
LineStep(state, index, scrollY, isUserInteracting, ai, lay, dt, isScrubbing) ==
    LET target == -scrollY
        snapped == IF Abs(state.posY.current - target) > lay.containerHeight * 2
                   THEN [current |-> target, velocity |-> 0, target |-> target]
                   ELSE [state.posY EXCEPT !.target = target]
        isMovingDown == snapped.target > snapped.current + 1000
        posConfig == IF isUserInteracting THEN Config(5, 400, 3500, <<100>>)
                     ELSE IF isMovingDown THEN Config(10, 350, 4000, <<100>>)
                     ELSE getLinePosSpring(index - ai)
        posY == IF isScrubbing THEN [current |-> target, velocity |-> 0, target |-> target]
                ELSE updateSpring(snapped, posConfig, dt)
        lineCenter == LineY(lay, index) + MulDiv(LineH(lay, index), 1, 2)
        visualLineCenter == lineCenter + posY.current
        visualActivePoint == MulDiv(lay.containerHeight, 35, 100)
        dist == Abs(visualLineCenter - visualActivePoint)
        targetScale == IF index # ai
                       THEN Max(8500, 10000 - MulDiv(1500, Min(dist, 450000), 450000))
                       ELSE 10000
        scale == IF isScrubbing
                 THEN [current |-> targetScale, velocity |-> 0, target |-> targetScale]
                 ELSE updateSpring([state.scale EXCEPT !.target = targetScale],
                                   SCALE_SPRING, dt)
    IN  [posY |-> posY, scale |-> scale]

\* updatePhysics, part 2 for every line, given the camera's step
LinesStep(cam, scrollY, ss, ls, ai, lay, t, dt, isScrubbing) ==
    [system      |-> cam.system,
     moving      |-> cam.moving,
     scrollState |-> cam.scrollState,
     mode        |-> cam.mode,
     linesState  |-> [i \in DOMAIN ls |->
                        LineStep(ls[i], i, scrollY, UserScrollActive(ss, t) \/ isScrubbing,
                                 ai, lay, dt, isScrubbing)]]

\* updatePhysics(dt) at performance.now() = t
updatePhysics(sys, ss, ls, ai, lay, t, dt, isScrubbing) ==
    LET cam == CameraStep(sys, ss, ai, lay, t, dt, isScrubbing)
    IN  LinesStep(cam, GetCurrent(cam.system, "scrollY"), ss, ls, ai, lay, t, dt, isScrubbing)

\* handlers
onTouchStart(sys, ss, t, clientY) ==
    [system      |-> SetValue(sys, "scrollY", GetCurrent(sys, "scrollY")),
     scrollState |-> [ss EXCEPT !.isDragging = TRUE, !.lastInteractionTime = t,
                                !.touchStartY = clientY, !.touchLastY = clientY,
                                !.touchVelocity = 0]]

\* a move handler that measures the displacement from where the drag started
onTouchMoveFromStart(sys, ss, t, clientY) ==
    IF ~ss.isDragging THEN [system |-> sys, scrollState |-> ss]
    ELSE LET dy == ss.touchStartY - clientY
         IN  [system      |-> SetValue(sys, "scrollY", GetCurrent(sys, "scrollY") + dy),
              scrollState |-> [ss EXCEPT !.touchLastY = clientY,
                                         !.touchVelocity = dy * 60,
                                         !.lastInteractionTime = t]]

onTouchMove(sys, ss, t, clientY) ==
    IF ~ss.isDragging THEN [system |-> sys, scrollState |-> ss]
    ELSE LET dy == ss.touchLastY - clientY
         IN  [system      |-> SetValue(sys, "scrollY", GetCurrent(sys, "scrollY") + dy),
              scrollState |-> [ss EXCEPT !.touchLastY = clientY,
                                         !.touchVelocity = dy * 60,
                                         !.lastInteractionTime = t]]

onTouchEnd(sys, ss, t) ==
    [system      |-> sys,
     scrollState |-> [ss EXCEPT !.isDragging = FALSE, !.lastInteractionTime = t]]

\* a wheel handler that moves the camera without stamping the interaction time
onWheelNoStamp(sys, ss, t, deltaY) ==
    [system      |-> SetValue(sys, "scrollY", GetCurrent(sys, "scrollY") + deltaY),
     scrollState |-> ss]

onWheel(sys, ss, t, deltaY) ==
    [system      |-> SetValue(sys, "scrollY", GetCurrent(sys, "scrollY") + deltaY),
     scrollState |-> [ss EXCEPT !.lastInteractionTime = t]]

----------------------------------------------------------------------------
(* components/LyricsView: the frame renderer's visual time *)

Tau(variant) == IF variant = "part_003" THEN 200 ELSE 350

\* a smoothing factor of the wrong sign: the visual time is pushed away from the target
SmoothingAway(dt, tau) == -MulDiv(dt, 10000, tau)

\* 1 - exp(-dt/tau) in units of 1/10000, by the series x - x^2/2 + x^3/6 - x^4/24
Smoothing(dt, tau) ==
    LET x  == MulDiv(dt, 10000, tau)
        t2 == MulDiv(x, x, 20000)
        t3 == MulDiv(t2, x, 30000)
        t4 == MulDiv(t3, x, 40000)
    IN  x - t2 + t3 - t4

\* audioRef.current?.playbackRate || 1, in 1/100
PlaybackRate(pl) == IF pl.playbackRate = 0 THEN 100 ELSE pl.playbackRate

\* visualTime before the jump detection
SmoothedVisualTime(vt, targetTime, pl, variant, dt) ==
    IF pl.isPlaying
    THEN LET advanced == JsAdd(vt, Fin(MulDiv(dt, PlaybackRate(pl), 100)))
             drift    == JsSub(Fin(targetTime), advanced)
         IN  JsAdd(advanced, JsScale(drift, Smoothing(dt, Tau(variant)), 10000))
    ELSE LET easeFactor == Min(1000, dt * 10)
         IN  JsAdd(vt, JsScale(JsSub(Fin(targetTime), vt), easeFactor, 1000))

\* a jump detection that only looks at the distance
JumpDetectedByDistance(smoothed, targetTime) ==
    JsAbsGreater(JsSub(Fin(targetTime), smoothed), 1000)

JumpDetected(smoothed, targetTime) ==
    ~IsFinite(smoothed) \/ JsAbsGreater(JsSub(Fin(targetTime), smoothed), 1000)

NextVisualTime(vt, targetTime, pl, variant, dt) ==
    LET smoothed == SmoothedVisualTime(vt, targetTime, pl, variant, dt)
    IN  IF JumpDetected(smoothed, targetTime) THEN Fin(targetTime) ELSE smoothed

\* handleClick: the calls to onSeekRequest, scanning the lines from index i on
VisualY(ls, lay, i, height) ==
    (IF lay.variant = "part_003" THEN LineY(lay, i) ELSE 0)
        + ls[i].posY.current + MulDiv(height, 25, 100)

Skipped(lyr, ls, lay, i) ==
    \/ lay.variant # "part_003" /\ lyr[i + 1].isMetadata
    \/ i \notin DOMAIN ls

\* a scan that does not stop at the first line hit
RECURSIVE ClickScanAll(_, _, _, _, _, _)
ClickScanAll(lyr, ls, lay, clickY, height, i) ==
    IF i >= Len(lay.lineHeights) THEN <<>>
    ELSE IF Skipped(lyr, ls, lay, i) THEN ClickScanAll(lyr, ls, lay, clickY, height, i + 1)
    ELSE LET visualY == VisualY(ls, lay, i, height)
             h == LineH(lay, i)
         IN  (IF clickY >= visualY /\ clickY <= visualY + h
              THEN <<[time |-> lyr[i + 1].time, immediate |-> TRUE]>> ELSE <<>>)
             \o ClickScanAll(lyr, ls, lay, clickY, height, i + 1)

RECURSIVE ClickScan(_, _, _, _, _, _)
ClickScan(lyr, ls, lay, clickY, height, i) ==
    IF i >= Len(lay.lineHeights) THEN <<>>
    ELSE IF Skipped(lyr, ls, lay, i) THEN ClickScan(lyr, ls, lay, clickY, height, i + 1)
    ELSE LET visualY == VisualY(ls, lay, i, height)
             h == LineH(lay, i)
         IN  IF clickY >= visualY /\ clickY <= visualY + h
             THEN <<[time |-> lyr[i + 1].time, immediate |-> TRUE]>>
             ELSE ClickScan(lyr, ls, lay, clickY, height, i + 1)

----------------------------------------------------------------------------
(* The view at mount, before any lyrics arrive *)

HookAtMount ==
    /\ lyrics = <<>>
    /\ currentTime = 0
    /\ activeIndex = -1
    /\ linesState = EmptyMap
    /\ scrollState = InitScrollState
    /\ now = 0
    /\ layout = [lineHeights |-> <<>>, containerHeight |-> 100000, variant |-> "LyricsView"]
    /\ visualTime = Fin(0)
    /\ player = [isPlaying |-> FALSE, playbackRate |-> 100, position |-> 0, lastDelivery |-> 0]
    /\ seekCalls = <<>>
    /\ lyricLines = <<>>
    /\ viewport = [containerWidth |-> 0, height |-> 400000, isMobile |-> FALSE]
    /\ drawn = {}

----------------------------------------------------------------------------
(* SpecSpring: a SpringSystem driven through its public methods *)

MaxOps == 4

SpringKeys       == {"scrollY", "x"}
SpringValues     == {0, 20000}
SpringVelocities == {150000}
SpringDts        == {0, 16}
SpringConfigs    == {CAMERA_SPRING,
                     Config(10, 120, 2000, <<>>),
                     Config(5, 400, 0, <<0>>)}
SpringInitials   == {[k \in {"scrollY"} |-> 0],
                     [k \in SpringKeys |-> IF k = "x" THEN 20000 ELSE 0]}

AtRest(sys, k) ==
    /\ Has(sys.current, k)
    /\ sys.current[k] = TargetOf(sys, k)
    /\ VelocityOf(sys, k) = 0

AllAtRest(sys) == \A k \in DOMAIN sys.current : AtRest(sys, k)

Pinned(old, sys, name, key) ==
    {k \in SpringKeys :
        \/ AtRest(sys, k)
        \/ k \in old /\ ~(name \in {"setTarget", "setValue"} /\ key = k)}

InitSpring ==
    /\ \E init \in SpringInitials : system = NewSpringSystem(init)
    /\ moving = FALSE
    /\ HookAtMount
    /\ op = [name |-> "new", key |-> "", dt |-> 0, restBefore |-> FALSE]
    /\ steps = 0
    /\ pinned = {k \in SpringKeys : AtRest(system, k)}
    /\ cache = NewCache

SpringSetTarget(k, v, c) ==
    /\ steps < MaxOps
    /\ system' = SetTarget(system, k, v, c)
    /\ op' = [name |-> "setTarget", key |-> k, dt |-> 0, restBefore |-> AtRest(system, k)]
    /\ pinned' = Pinned(pinned, system', "setTarget", k)
    /\ UNCHANGED cache
    /\ steps' = steps + 1
    /\ UNCHANGED <<moving, hookVars>>

SpringSetValue(k, v) ==
    /\ steps < MaxOps
    /\ system' = SetValue(system, k, v)
    /\ op' = [name |-> "setValue", key |-> k, dt |-> 0, restBefore |-> AtRest(system, k)]
    /\ pinned' = Pinned(pinned, system', "setValue", k)
    /\ UNCHANGED cache
    /\ steps' = steps + 1
    /\ UNCHANGED <<moving, hookVars>>

SpringSetVelocity(k, v) ==
    /\ steps < MaxOps
    /\ system' = SetVelocity(system, k, v)
    /\ op' = [name |-> "setVelocity", key |-> k, dt |-> 0, restBefore |-> AtRest(system, k)]
    /\ pinned' = Pinned(pinned, system', "setVelocity", k)
    /\ UNCHANGED cache
    /\ steps' = steps + 1
    /\ UNCHANGED <<moving, hookVars>>

SpringUpdate(dt) ==
    /\ steps < MaxOps
    /\ system' = Update(system, dt)
    /\ moving' = UpdateMoving(system, dt)
    /\ op' = [name |-> "update", key |-> "", dt |-> dt, restBefore |-> AllAtRest(system)]
    /\ pinned' = Pinned(pinned, system', "update", "")
    /\ UNCHANGED cache
    /\ steps' = steps + 1
    /\ UNCHANGED hookVars

NextSpring ==
    \/ \E k \in SpringKeys, v \in SpringValues, c \in SpringConfigs : SpringSetTarget(k, v, c)
    \/ \E k \in SpringKeys, v \in SpringValues : SpringSetValue(k, v)
    \/ \E k \in SpringKeys, v \in SpringVelocities : SpringSetVelocity(k, v)
    \/ \E dt \in SpringDts : SpringUpdate(dt)

SpecSpring == InitSpring /\ [][NextSpring]_vars

(* C4 as stated: idempotence at rest.  On every update(dt), a channel with
   current = target and velocity = 0 keeps its current, velocity and target,
   whatever its config, and update returns false when every channel is in
   that state. *)
RestChannelsKept ==
    \A k \in DOMAIN system.current :
        AtRest(system, k) =>
            /\ system'.current[k] = system.current[k]
            /\ VelocityOf(system', k) = 0
            /\ TargetOf(system', k) = TargetOf(system, k)

C4_AsStated ==
    [][op'.name = "update" =>
        /\ RestChannelsKept
        /\ (AllAtRest(system) => moving' = FALSE)]_vars

(* C4 amended: the channel state is kept for every config; update returns
   false when every channel is at rest and every channel's precision is > 0. *)
C4_IdempotentAtRest ==
    [][op'.name = "update" =>
        /\ RestChannelsKept
        /\ ((AllAtRest(system)
             /\ \A k \in DOMAIN system.current : PrecisionOf(ConfigOf(system, k)) > 0)
            => moving' = FALSE)]_vars

\* an update ran on a system wholly at rest, with a target set away from the
\* initial value earlier, and reported no movement
C4_Witness ==
    /\ op.name = "update"
    /\ op.restBefore
    /\ op.dt > 0
    /\ moving = FALSE
    /\ Has(system.config, "scrollY")
    /\ system.current["scrollY"] # 0
    /\ AllAtRest(system)

(* C6 as stated: a channel that came to rest keeps current = target for as
   long as no setTarget or setValue is called on it (update and setVelocity
   calls included). *)
C6_AsStated ==
    \A k \in pinned : Has(system.current, k) => system.current[k] = TargetOf(system, k)

(* C6 amended: a channel at rest stays at rest (current = target, velocity = 0)
   across every operation other than setTarget, setValue and setVelocity on
   that channel. *)
C6_PinnedAtRest ==
    [][\A k \in SpringKeys :
        (AtRest(system, k)
         /\ ~(op'.name \in {"setTarget", "setValue", "setVelocity"} /\ op'.key = k))
        => AtRest(system', k)]_vars

\* an update with dt > 0 ran while one channel was at rest with a target away
\* from 0 and the other channel was moving
C6_Witness ==
    /\ op.name = "update"
    /\ op.dt > 0
    /\ moving
    /\ \E k \in SpringKeys : AtRest(system, k) /\ system.current[k] # 0 /\ k \in pinned
    /\ \E k \in SpringKeys : Has(system.current, k) /\ ~AtRest(system, k)

(* C7: channel independence.  setTarget, setValue and setVelocity on a key
   leave every other key's current, target, velocity and config as they were;
   what update(dt) makes of a key is the step of that key's own current,
   target, velocity and config, and is the same whatever another key holds. *)
ChannelOf(sys, k) ==
    <<Has(sys.current, k), GetCurrent(sys, k),
      Has(sys.target, k), IF Has(sys.target, k) THEN sys.target[k] ELSE 0,
      Has(sys.velocity, k), VelocityOf(sys, k),
      Has(sys.config, k), ConfigOf(sys, k)>>

OtherKeyChanges(sys, j) ==
    {SetTarget(sys, j, v, c) : v \in SpringValues, c \in SpringConfigs}
        \cup {SetValue(sys, j, v) : v \in SpringValues}
        \cup {SetVelocity(sys, j, v) : v \in SpringVelocities}

OwnStep(sys, k, dt) ==
    LET own == StepChannel(ConfigOf(sys, k), sys.current[k], TargetOf(sys, k),
                           VelocityOf(sys, k), dt)
    IN  <<TRUE, own.current,
          Has(sys.target, k), IF Has(sys.target, k) THEN sys.target[k] ELSE 0,
          TRUE, own.velocity,
          Has(sys.config, k), ConfigOf(sys, k)>>

C7_ChannelIndependence ==
    [][\A k \in SpringKeys :
        /\ (op'.name \in {"setTarget", "setValue", "setVelocity"} /\ op'.key # k)
            => ChannelOf(system', k) = ChannelOf(system, k)
        /\ (op'.name = "update" /\ Has(system.current, k))
            => /\ ChannelOf(system', k) = OwnStep(system, k, op'.dt)
               /\ \A j \in SpringKeys \ {k} : \A s2 \in OtherKeyChanges(system, j) :
                      ChannelOf(Update(s2, op'.dt), k) = ChannelOf(system', k)]_vars

\* both channels exist with different configs and both moved in the last update
C7_Witness ==
    /\ op.name = "update"
    /\ op.dt > 0
    /\ Has(system.current, "scrollY") /\ Has(system.current, "x")
    /\ ConfigOf(system, "scrollY") # ConfigOf(system, "x")
    /\ ~AtRest(system, "scrollY") /\ ~AtRest(system, "x")
    /\ system.velocity["scrollY"] # 0 /\ system.velocity["x"] # 0

----------------------------------------------------------------------------
(* SpecSpringRun: one channel, a fixed target, update(dt) repeated with a
   fixed dt.  The channel is put into its initial state through setTarget and
   setVelocity.  Configs whose precision is below 100 units are left out: the
   fixed-point grid cannot resolve motion that slow. *)

RunConfigs    == {CAMERA_SPRING,
                  Config(12, 70, 2000, <<100>>),
                  Config(10, 100, 100, <<100>>),
                  Config(10, 100, 0, <<100>>)}
RunCurrents   == {300, -500}
RunVelocities == {0, 4000}
RunDts        == {8, 16}

InitSpringRun ==
    /\ \E c \in RunConfigs, x \in RunCurrents, v \in RunVelocities, dt \in RunDts :
        /\ system = SetVelocity(SetTarget(NewSpringSystem([k \in {"scrollY"} |-> x]),
                                          "scrollY", 0, c), "scrollY", v)
        /\ op = [name |-> "new", key |-> "", dt |-> dt, restBefore |-> FALSE]
    /\ moving = TRUE
    /\ HookAtMount
    /\ steps = 0
    /\ pinned = {}
    /\ cache = NewCache

RunUpdate ==
    /\ system' = Update(system, op.dt)
    /\ moving' = UpdateMoving(system, op.dt)
    /\ op' = [op EXCEPT !.name = "update", !.restBefore = AllAtRest(system)]
    /\ UNCHANGED <<hookVars, steps, pinned, cache>>

SpecSpringRun == InitSpringRun /\ [][RunUpdate]_vars /\ WF_vars(RunUpdate)

(* C5 as stated: with stiffness > 0, damping >= 0 and mass > 0, repeated
   update(dt) calls reach the rest state current = target, velocity = 0. *)
C5_AsStated == <>AtRest(system, "scrollY")

(* C5 amended: with stiffness > 0, damping > 0, mass > 0 and precision > 0,
   repeated update(dt) calls reach the rest state. *)
C5_DampedConverges ==
    (ConfigOf(system, "scrollY").damping > 0) ~> AtRest(system, "scrollY")

\* a damped channel that started away from its target with a velocity has
\* been stepped to rest
C5_Witness ==
    /\ op.name = "update"
    /\ ~op.restBefore
    /\ ConfigOf(system, "scrollY").damping > 0
    /\ AtRest(system, "scrollY")
    /\ ~moving

----------------------------------------------------------------------------
(* components/lyrics/LyricLine: measure.  Lengths are in 1/1000 px.  A text is
   [chars, blank, measured]: its length, whether text.trim() is empty, and the
   width ctx.measureText returns for it; a timed word is [text, startTime,
   endTime]; a translation is the sequence of the measured widths of its atoms,
   <<>> when the line has none. *)

Text(chars, blank, measured) == [chars |-> chars, blank |-> blank, measured |-> measured]

getFonts(isMobile) ==
    [baseSize    |-> IF isMobile THEN 32000 ELSE 40000,
     mainHeight  |-> IF isMobile THEN 32000 ELSE 40000,
     transHeight |-> IF isMobile THEN 23400 ELSE 28600]

WrapLineGap(mainHeight) == MulDiv(mainHeight, 25, 100)

PaddingX(isMobile) == IF isMobile THEN 24000 ELSE 56000
PaddingY == 18000

\* a width without the fallback
WordWidthMeasuredOnly(text, baseSize) == text.measured

\* addWord: the width of a word
WordWidth(text, baseSize) ==
    IF text.measured = 0 /\ ~text.blank
    THEN text.chars * MulDiv(baseSize, 1, 2) ELSE text.measured

\* addWord: does the word start a new row
Wraps(currentLineX, width, maxWidth) ==
    currentLineX + width > maxWidth /\ currentLineX > 0

\* addWord: acc is [words, currentLineX, currentLineY, maxLineWidth]
addWord(acc, w, maxWidth, fonts) ==
    LET width == WordWidth(w.text, fonts.baseSize)
        wrap  == Wraps(acc.currentLineX, width, maxWidth)
        x     == IF wrap THEN 0 ELSE acc.currentLineX
        y     == IF wrap THEN acc.currentLineY + fonts.mainHeight + WrapLineGap(fonts.mainHeight)
                 ELSE acc.currentLineY
    IN  [words        |-> Append(acc.words,
                                 [text |-> w.text, x |-> x, y |-> y, width |-> width,
                                  startTime |-> w.startTime, endTime |-> w.endTime,
                                  renderProgress |-> <<>>, renderSnapshot |-> <<>>]),
         currentLineX |-> x + width,
         currentLineY |-> y,
         maxLineWidth |-> Max(acc.maxLineWidth, x + width)]

\* line.words.forEach(addWord) from word i on.  (Intermediate results are bound
\* through one-element sets, here and below, so that each is computed once.)
RECURSIVE AddWords(_, _, _, _, _)
AddWords(acc, ws, i, maxWidth, fonts) ==
    IF i > Len(ws) THEN acc
    ELSE CHOOSE r \in {AddWords(next, ws, i + 1, maxWidth, fonts) :
                          next \in {addWord(acc, ws[i], maxWidth, fonts)}} : TRUE

measureLineText(line, maxWidth, fonts) ==
    CHOOSE r \in {[words |-> acc.words, textWidth |-> acc.maxLineWidth,
                   height |-> acc.currentLineY + fonts.mainHeight] :
                      acc \in {AddWords([words |-> <<>>, currentLineX |-> 0,
                                         currentLineY |-> PaddingY, maxLineWidth |-> 0],
                                        line.words, 1, maxWidth, fonts)}} : TRUE

\* measureTranslationLines: acc is [lines, currentTransWidth, maxLineWidth, open],
\* lines the widths of the rows closed so far, open whether the current row has text
RECURSIVE AddAtoms(_, _, _, _)
AddAtoms(acc, atoms, i, maxWidth) ==
    IF i > Len(atoms) THEN acc
    ELSE LET width == atoms[i]
             next  == IF acc.currentTransWidth + width > maxWidth /\ acc.currentTransWidth > 0
                      THEN [lines |-> Append(acc.lines, acc.currentTransWidth),
                            currentTransWidth |-> width,
                            maxLineWidth |-> Max(acc.maxLineWidth, acc.currentTransWidth),
                            open |-> TRUE]
                      ELSE [acc EXCEPT !.currentTransWidth = @ + width, !.open = TRUE]
         IN  CHOOSE r \in {AddAtoms(n, atoms, i + 1, maxWidth) : n \in {next}} : TRUE

TranslationLayout(acc, fonts) ==
    LET lines == IF acc.open THEN Append(acc.lines, acc.currentTransWidth) ELSE acc.lines
        width == IF acc.open THEN Max(acc.maxLineWidth, acc.currentTransWidth)
                 ELSE acc.maxLineWidth
    IN  [lines |-> lines,
         height |-> IF Len(lines) > 0 THEN Len(lines) * fonts.transHeight + 4000 ELSE 0,
         width |-> width]

measureTranslationLines(translation, maxWidth, fonts) ==
    CHOOSE r \in {TranslationLayout(acc, fonts) :
                      acc \in {AddAtoms([lines |-> <<>>, currentTransWidth |-> 0,
                                         maxLineWidth |-> 0, open |-> FALSE],
                                        translation, 1, maxWidth)}} : TRUE

\* new LyricLine(line, index, isMobile).  canvas is what the line's bitmap shows:
\* <<>> when it is blank, else the (isActive, isHovered) pair it was painted with
NewLyricLine(line, index, isMobile) ==
    [lyricLine |-> line, index |-> index, isMobile |-> isMobile, layout |-> <<>>,
     height |-> 0, logicalWidth |-> 0, logicalHeight |-> 0, isDirty |-> TRUE,
     lastIsActive |-> FALSE, lastIsHovered |-> FALSE, canvas |-> <<>>,
     suggested |-> 0]

\* a row budget for the main text that follows the suggested width
MainWrapWidthSuggested(maxWidth, suggestedTranslationWidth) ==
    IF suggestedTranslationWidth # 0 THEN Min(maxWidth, suggestedTranslationWidth)
    ELSE maxWidth

\* the maxWidth that measure hands to measureLineText
MainWrapWidth(maxWidth, suggestedTranslationWidth) == maxWidth

\* LyricLine.measure(containerWidth, suggestedTranslationWidth): the object after
\* the call; suggested keeps the second argument of the call
measure(obj, containerWidth, suggestedTranslationWidth) ==
    LET fonts    == getFonts(obj.isMobile)
        maxWidth == containerWidth - PaddingX(obj.isMobile) * 2
        hasTrans == Len(obj.lyricLine.translation) > 0
        WrapWidth(main) ==
            LET wrapBase == IF main.textWidth > 0 THEN main.textWidth ELSE maxWidth
            IN  IF suggestedTranslationWidth # 0 /\ suggestedTranslationWidth > wrapBase
                THEN Min(suggestedTranslationWidth, maxWidth) ELSE wrapBase
        Laid(main, trans) ==
            LET translationWidth == IF hasTrans THEN Min(trans.width, maxWidth) ELSE 0
                blockHeight == main.height + (IF hasTrans THEN trans.height ELSE 0) + PaddingY
            IN  [obj EXCEPT !.layout = <<[words |-> main.words,
                                          translationLines |-> IF hasTrans THEN trans.lines
                                                               ELSE <<>>,
                                          textWidth |-> Max(Max(main.textWidth,
                                                                translationWidth),
                                                            main.textWidth),
                                          translationWidth |-> translationWidth,
                                          height |-> blockHeight]>>,
                        !.height = blockHeight,
                        !.logicalWidth = containerWidth,
                        !.logicalHeight = blockHeight,
                        !.isDirty = TRUE,
                        !.canvas = <<>>,
                        !.suggested = suggestedTranslationWidth]
    IN  CHOOSE r \in
            UNION {{Laid(main, trans) :
                      trans \in {measureTranslationLines(obj.lyricLine.translation,
                                                         WrapWidth(main), fonts)}} :
                   main \in {measureLineText(obj.lyricLine,
                                             MainWrapWidth(maxWidth,
                                                           suggestedTranslationWidth),
                                             fonts)}} : TRUE

getTextWidth(obj) == IF obj.layout = <<>> THEN 0 ELSE obj.layout[1].textWidth

WINDOW_SIZE == 5

\* the largest element of q, 0 for the empty sequence
SeqMax(q) ==
    IF Len(q) = 0 THEN 0
    ELSE CHOOSE m \in {q[i] : i \in 1 .. Len(q)} : \A j \in 1 .. Len(q) : q[j] <= m

\* the forEach of the "Initialize and Measure LyricLines" effect from line i on
RECURSIVE MeasureFrom(_, _, _, _, _, _)
MeasureFrom(lyr, i, containerWidth, isMobile, previousWidths, lines) ==
    IF i > Len(lyr) THEN lines
    ELSE LET suggestedWidth == SeqMax(previousWidths)
             Window(lyricLine) ==
                 LET pushed == Append(previousWidths, getTextWidth(lyricLine))
                 IN  IF Len(pushed) > WINDOW_SIZE THEN Tail(pushed) ELSE pushed
         IN  CHOOSE r \in
                 UNION {{MeasureFrom(lyr, i + 1, containerWidth, isMobile, window,
                                     Append(lines, lyricLine)) :
                           window \in {Window(lyricLine)}} :
                        lyricLine \in {measure(NewLyricLine(lyr[i], i - 1, isMobile),
                                               containerWidth, suggestedWidth)}} : TRUE

\* an effect that measures whatever the container width is
MeasureEffectAnyWidth(lyr, containerWidth, isMobile) ==
    MeasureFrom(lyr, 1, containerWidth, isMobile, <<>>, <<>>)

\* the "Initialize and Measure LyricLines" effect: the new lyricLines
MeasureEffect(lyr, containerWidth, isMobile) ==
    IF Len(lyr) = 0 \/ containerWidth <= 0 THEN <<>>
    ELSE MeasureFrom(lyr, 1, containerWidth, isMobile, <<>>, <<>>)

\* useMemo: lineHeights from the line objects
LineHeightsOf(lines) == [i \in 1 .. Len(lines) |-> lines[i].height]

----------------------------------------------------------------------------
(* The hook and the view as a state machine.  A frame advances the clock by
   the time since the previous frame and runs render(deltaTime): the physics
   tick and the visual time.  Prop changes run the hook's effects.  op keeps
   the last operation; op.dragEnd is the time at which onTouchEnd last ended
   a drag, or -1 once another input event has been delivered. *)

HookOp(name, dragEnd, mode, jumped, prev) ==
    [name |-> name, dragEnd |-> dragEnd, mode |-> mode, jumped |-> jumped, prev |-> prev]

EventOp(name, dragEnd) == HookOp(name, dragEnd, "", FALSE, visualTime)

MaxDeltaTime == 64

\* a line object that was measured to the given height
MeasuredTo(line, index, h) ==
    [NewLyricLine(line, index, FALSE) EXCEPT !.height = h, !.logicalHeight = h,
                                             !.layout = <<[words |-> <<>>,
                                                           translationLines |-> <<>>,
                                                           textWidth |-> 0,
                                                           translationWidth |-> 0,
                                                           height |-> h]>>]

\* render: the lines that pass the culling test and are drawn
DrawnLines(lines, ls, lay, height) ==
    {i \in 0 .. (Len(lines) - 1) :
        /\ i \in DOMAIN ls
        /\ ~(\/ VisualY(ls, lay, i, height) + LineH(lay, i) < -100000
             \/ VisualY(ls, lay, i, height) > height + 100000)}

\* render(deltaTime) of LyricsView, d ms after the previous frame
RenderAt(t, d, isScrubbing) ==
    LET dt == Min(d, MaxDeltaTime)
        phv == updatePhysics(system, scrollState, linesState, activeIndex, layout, t, dt,
                             isScrubbing)
        smoothed == SmoothedVisualTime(visualTime, currentTime, player, layout.variant, dt)
    IN  \E ph \in {phv} :
        /\ now' = t
        /\ system' = ph.system
        /\ moving' = ph.moving
        /\ scrollState' = ph.scrollState
        /\ linesState' = ph.linesState
        /\ visualTime' = NextVisualTime(visualTime, currentTime, player, layout.variant, dt)
        /\ player' = IF player.isPlaying
                     THEN [player EXCEPT !.position = @ + MulDiv(d, PlaybackRate(player), 100)]
                     ELSE player
        /\ op' = HookOp("render", op.dragEnd, ph.mode,
                        JumpDetected(smoothed, currentTime), visualTime)
        /\ drawn' = DrawnLines(lyricLines, ph.linesState, layout, viewport.height)
        /\ UNCHANGED <<lyrics, currentTime, activeIndex, layout, seekCalls, lyricLines,
                       viewport>>

\* a frame d ms after the previous one
Render(d, isScrubbing) == RenderAt(now + d, d, isScrubbing)

\* the view's frame: it passes isScrubbing false
Frame(d) == Render(d, FALSE)

\* the currentTime prop changes (a time update of the audio element, or a seek)
TimeUpdate(t) ==
    /\ currentTime' = t
    /\ activeIndex' = ActiveIndexEffect(lyrics, t, activeIndex)
    /\ player' = [player EXCEPT !.position = t, !.lastDelivery = now]
    /\ op' = EventOp("timeUpdate", op.dragEnd)
    /\ UNCHANGED <<system, moving, lyrics, linesState, scrollState, now, layout,
                   visualTime, seekCalls>>
    /\ UNCHANGED viewVars

\* the lyrics prop changes: a track with these lines and measured heights
LoadLyrics(lyr, heights) ==
    /\ lyrics' = lyr
    /\ layout' = [layout EXCEPT !.lineHeights = heights]
    /\ lyricLines' = [i \in 1 .. Len(heights) |-> MeasuredTo(lyr[i], i - 1, heights[i])]
    /\ linesState' = InitLineStates(linesState, Len(lyr))
    /\ activeIndex' = ActiveIndexEffect(lyr, currentTime, activeIndex)
    /\ op' = EventOp("loadLyrics", op.dragEnd)
    /\ UNCHANGED <<system, moving, currentTime, scrollState, now, visualTime, player,
                   seekCalls>>
    /\ UNCHANGED <<viewport, drawn>>

TouchStart(clientY) ==
    LET r == onTouchStart(system, scrollState, now, clientY)
    IN  /\ system' = r.system
        /\ scrollState' = r.scrollState
        /\ op' = EventOp("onTouchStart", -1)
        /\ UNCHANGED <<moving, lyrics, currentTime, activeIndex, linesState, now, layout,
                       visualTime, player, seekCalls>>
        /\ UNCHANGED viewVars

TouchMove(clientY) ==
    LET r == onTouchMove(system, scrollState, now, clientY)
    IN  /\ system' = r.system
        /\ scrollState' = r.scrollState
        /\ op' = EventOp("onTouchMove", -1)
        /\ UNCHANGED <<moving, lyrics, currentTime, activeIndex, linesState, now, layout,
                       visualTime, player, seekCalls>>
        /\ UNCHANGED viewVars

TouchEnd ==
    LET r == onTouchEnd(system, scrollState, now)
    IN  /\ system' = r.system
        /\ scrollState' = r.scrollState
        /\ op' = EventOp("onTouchEnd", IF scrollState.isDragging THEN now ELSE -1)
        /\ UNCHANGED <<moving, lyrics, currentTime, activeIndex, linesState, now, layout,
                       visualTime, player, seekCalls>>
        /\ UNCHANGED viewVars

Wheel(deltaY) ==
    LET r == onWheel(system, scrollState, now, deltaY)
    IN  /\ system' = r.system
        /\ scrollState' = r.scrollState
        /\ op' = EventOp("onWheel", -1)
        /\ UNCHANGED <<moving, lyrics, currentTime, activeIndex, linesState, now, layout,
                       visualTime, player, seekCalls>>
        /\ UNCHANGED viewVars

\* the view's onMouseLeave: the pointer leaves the container, whether or not a
\* button is down; it calls handlers.onTouchEnd().  op.mode keeps the mode of
\* the tick that ran last before it ("" when another event came in between)
MouseLeave ==
    LET r == onTouchEnd(system, scrollState, now)
    IN  /\ system' = r.system
        /\ scrollState' = r.scrollState
        /\ op' = HookOp("onMouseLeave", IF scrollState.isDragging THEN now ELSE -1,
                        IF op.name = "render" THEN op.mode ELSE "", FALSE, visualTime)
        /\ UNCHANGED <<moving, lyrics, currentTime, activeIndex, linesState, now, layout,
                       visualTime, player, seekCalls>>
        /\ UNCHANGED viewVars

\* the isPlaying prop changes
SetPlaying(b) ==
    /\ player' = [player EXCEPT !.isPlaying = b]
    /\ op' = EventOp("setPlaying", op.dragEnd)
    /\ UNCHANGED <<system, moving, lyrics, currentTime, activeIndex, linesState,
                   scrollState, now, layout, visualTime, seekCalls>>
    /\ UNCHANGED viewVars

\* the playback speed control sets audio.playbackRate
SetPlaybackRate(r) ==
    /\ player' = [player EXCEPT !.playbackRate = r]
    /\ op' = EventOp("setPlaybackRate", op.dragEnd)
    /\ UNCHANGED <<system, moving, lyrics, currentTime, activeIndex, linesState,
                   scrollState, now, layout, visualTime, seekCalls>>
    /\ UNCHANGED viewVars

\* handleClick at clickY on a canvas of the given height
Click(clickY, height) ==
    /\ seekCalls' = ClickScan(lyrics, linesState, layout, clickY, height, 0)
    /\ op' = [name |-> "handleClick", dragEnd |-> -1, clickY |-> clickY,
              height |-> height]
    /\ UNCHANGED <<system, moving, lyrics, currentTime, activeIndex, linesState,
                   scrollState, now, layout, visualTime, player>>
    /\ UNCHANGED viewVars

Line(t, meta) == [time |-> t, isMetadata |-> meta]

\* lyric lists are sorted by time when they are built
Sorted(lyr) == \A i \in 1 .. (Len(lyr) - 1) : lyr[i].time <= lyr[i + 1].time

MaxLines == 3
LineTimes == {0, 5000, 10000}
Tracks ==
    {lyr \in UNION {[1 .. n -> {Line(t, FALSE) : t \in LineTimes}] : n \in 0 .. MaxLines} :
        Sorted(lyr)}
Heights(n) == [i \in 1 .. n |-> 40000]

\* the hook and the view with a track, line states ls, visual time vt and player pl
MountedWith(lyr, ct, t, variant, ls, vt, pl) ==
    /\ lyrics = lyr
    /\ currentTime = ct
    /\ activeIndex = ActiveIndexEffect(lyr, ct, -1)
    /\ linesState = ls
    /\ scrollState = InitScrollState
    /\ now = t
    /\ layout = [lineHeights |-> Heights(Len(lyr)), containerHeight |-> 400000,
                 variant |-> variant]
    /\ visualTime = vt
    /\ player = pl
    /\ seekCalls = <<>>
    /\ lyricLines = [i \in 1 .. Len(lyr) |-> MeasuredTo(lyr[i], i - 1, Heights(Len(lyr))[i])]
    /\ viewport = [containerWidth |-> 800000, height |-> 400000, isMobile |-> FALSE]
    /\ drawn = {}
    /\ system = NewSpringSystem([k \in {"scrollY"} |-> 0])
    /\ moving = FALSE
    /\ steps = 0
    /\ pinned = {}
    /\ cache = NewCache
    /\ op = HookOp("mount", -1, "", FALSE, vt)

Stopped(ct, t) ==
    [isPlaying |-> FALSE, playbackRate |-> 100, position |-> ct, lastDelivery |-> t]

\* the view mounted with a track at clock t: visualTimeRef starts at currentTime
Mounted(lyr, ct, t, variant) ==
    MountedWith(lyr, ct, t, variant, InitLineStates(EmptyMap, Len(lyr)), Fin(ct),
                Stopped(ct, t))

----------------------------------------------------------------------------
(* SpecActive: the active line under arbitrary time updates and track changes *)

SeekTimes == {0, 2500, 5000, 7500, 10000, 12500}

InitActive == \E lyr \in Tracks : \E ct \in SeekTimes : Mounted(lyr, ct, 0, "part_003")

NextActive ==
    \/ \E t \in SeekTimes : TimeUpdate(t) /\ UNCHANGED <<steps, pinned, cache>>
    \/ \E lyr \in Tracks : LoadLyrics(lyr, Heights(Len(lyr))) /\ UNCHANGED <<steps, pinned, cache>>

SpecActive == InitActive /\ [][NextActive]_vars

\* the line whose window holds the time: lyrics[i].time <= ct < lyrics[i+1].time
\* (no upper end for the last line), i a 0-based index
InWindow(lyr, ct, i) ==
    /\ lyr[i + 1].time <= ct
    /\ (i + 1 = Len(lyr) \/ ct < lyr[i + 2].time)

(* C2: after the active-index effect has run on a non-empty track, activeIndex
   is -1 exactly when currentTime is before the first line's time; this is
   the statement of the claim, which a backward seek violates *)
C2_AsStated ==
    Len(lyrics) > 0 => ((activeIndex = -1) <=> (currentTime < lyrics[1].time))

(* C3: whenever currentTime is at or after the first line's time, activeIndex
   is a line whose window holds currentTime and no other line's window does,
   also when consecutive lines carry the same time *)
C3_UniqueWindow ==
    (Len(lyrics) > 0 /\ currentTime >= lyrics[1].time) =>
        /\ activeIndex \in 0 .. (Len(lyrics) - 1)
        /\ InWindow(lyrics, currentTime, activeIndex)
        /\ \A j \in 0 .. (Len(lyrics) - 1) :
               InWindow(lyrics, currentTime, j) => j = activeIndex

C3_Witness ==
    /\ op.name = "timeUpdate"
    /\ Len(lyrics) = 3
    /\ lyrics[1].time = lyrics[2].time
    /\ currentTime = lyrics[2].time
    /\ lyrics[3].time > currentTime
    /\ activeIndex = 1

----------------------------------------------------------------------------
(* SpecCamera: frames, pointer and wheel events and time updates in any order *)

MaxCameraSteps == 5
FrameDeltas  == {16, 1500}
PointerYs    == {100000, 70000}
WheelDeltas  == {50000}
CameraTimes  == {0, 5000}
CameraTrack  == <<Line(0, FALSE), Line(5000, FALSE), Line(10000, FALSE)>>
MountClocks  == {0, 10000}

Count == steps < MaxCameraSteps /\ steps' = steps + 1 /\ UNCHANGED <<pinned, cache>>

InitCamera == \E t \in MountClocks : Mounted(CameraTrack, 0, t, "part_003")

NextCamera ==
    \/ \E d \in FrameDeltas : Frame(d) /\ Count
    \/ \E y \in PointerYs : TouchStart(y) /\ Count
    \/ \E y \in PointerYs : TouchMove(y) /\ Count
    \/ TouchEnd /\ Count
    \/ \E w \in WheelDeltas : Wheel(w) /\ Count
    \/ \E t \in CameraTimes : TimeUpdate(t) /\ Count

SpecCamera == InitCamera /\ [][NextCamera]_vars

(* C1: on every frame tick that runs after onTouchEnd ended a drag at time T
   with no input event since, the camera is in user-scrolling mode and its
   scrollY target is its current scrollY when the tick's time is before
   T + 3000 ms, and it is in auto-follow mode and its scrollY target is the
   active line's target when the tick's time is T + 3000 ms or later *)
C1_CameraResume ==
    (op.name = "render" /\ op.dragEnd >= 0) =>
        IF now < op.dragEnd + 3000
        THEN /\ op.mode = "user"
             /\ TargetOf(system, "scrollY") = GetCurrent(system, "scrollY")
        ELSE /\ op.mode = "auto"
             /\ TargetOf(system, "scrollY") = computeActiveScrollTarget(activeIndex, layout)

\* a tick exactly 3000 ms after the drag ended, the camera away from the active line
C1_Witness ==
    /\ op.name = "render"
    /\ op.dragEnd >= 0
    /\ now = op.dragEnd + 3000
    /\ op.mode = "auto"
    /\ GetCurrent(system, "scrollY") # computeActiveScrollTarget(activeIndex, layout)

----------------------------------------------------------------------------
(* SpecVisual: render from any stored visual time, with seeks, play/pause and
   speed changes between frames *)

MaxVisualSteps == 4
VisualDeltas   == {0, 16, 100}
VisualTimes    == {Fin(0), Fin(900), Fin(-2000), NaN, PosInf, NegInf}
VisualSeeks    == {0, 1010, 5000}
PlaybackRates  == {50, 100, 200}

CountVisual == steps < MaxVisualSteps /\ steps' = steps + 1 /\ UNCHANGED <<pinned, cache>>

InitVisual ==
    \E vt \in VisualTimes : \E variant \in {"part_003", "LyricsView"} :
        MountedWith(CameraTrack, 0, 0, variant, InitLineStates(EmptyMap, 3), vt,
                    Stopped(0, 0))

NextVisual ==
    \/ \E d \in VisualDeltas : Frame(d) /\ CountVisual
    \/ \E t \in VisualSeeks : TimeUpdate(t) /\ CountVisual
    \/ \E b \in BOOLEAN : SetPlaying(b) /\ CountVisual
    \/ \E r \in PlaybackRates : SetPlaybackRate(r) /\ CountVisual

SpecVisual == InitVisual /\ [][NextVisual]_vars

(* C8: at the end of every render call the stored visualTime is finite and
   within 1 s of currentTime, whatever the previous visualTime, dt and
   isPlaying; when the smoothed value is not, visualTime is exactly currentTime *)
C8_VisualTimeSnapped ==
    op.name = "render" =>
        /\ IsFinite(visualTime)
        /\ Abs(currentTime - visualTime.v) <= 1000
        /\ (op.jumped => visualTime = Fin(currentTime))

\* a render that started from NaN while playing and one that jumped over a seek
C8_Witness ==
    /\ op.name = "render"
    /\ op.prev = NaN
    /\ player.isPlaying
    /\ op.jumped
    /\ visualTime = Fin(currentTime)
    /\ currentTime = 5000

----------------------------------------------------------------------------
(* SpecPlayback: steady playback.  The audio element's position advances at
   playbackRate; it is delivered as the currentTime prop between 50 and 200 ms
   after the previous delivery; frames are at most 64 ms apart; no seeks. *)

\* frames come 32 or 64 ms apart up to MixedFramesUntil and 64 ms apart from then on
MaxPlayClock      == 1024
MixedFramesUntil  == 192
PlayDeltas        == {32, 64}
MinDeliveryGap    == 50
MaxDeliveryGap    == 200

Playing(rate) ==
    [isPlaying |-> TRUE, playbackRate |-> rate, position |-> 0, lastDelivery |-> 0]

InitPlayback ==
    \E rate \in PlaybackRates : \E variant \in {"part_003", "LyricsView"} :
        MountedWith(CameraTrack, 0, 0, variant, InitLineStates(EmptyMap, 3), Fin(0),
                    Playing(rate))

PlayFrame(d) ==
    /\ now + d <= MaxPlayClock
    /\ d = MaxDeltaTime \/ now + d <= MixedFramesUntil
    /\ now + d - player.lastDelivery <= MaxDeliveryGap
    /\ Frame(d)
    /\ UNCHANGED <<steps, pinned, cache>>

Deliver ==
    /\ now - player.lastDelivery >= MinDeliveryGap
    /\ TimeUpdate(player.position)
    /\ UNCHANGED <<steps, pinned, cache>>

NextPlayback ==
    \/ \E d \in PlayDeltas : PlayFrame(d)
    \/ Deliver

SpecPlayback == InitPlayback /\ [][NextPlayback]_vars

(* C9: during steady playback (constant playbackRate, frames at most 64 ms
   apart, currentTime delivered every 50-200 ms, no seeks) the visual time is
   less than 1 s from currentTime after the smoothing step of every frame and
   the jump detection never fires *)
C9_BoundedDrift ==
    op.name = "render" =>
        /\ ~op.jumped
        /\ IsFinite(visualTime)
        /\ Abs(visualTime.v - currentTime) < 1000

\* a frame late in the run, at double speed, with currentTime 192 ms stale and the
\* visual time ahead of it
C9_Witness ==
    /\ op.name = "render"
    /\ player.playbackRate = 200
    /\ now - player.lastDelivery = 192
    /\ now >= 900
    /\ visualTime.v > currentTime + 200

----------------------------------------------------------------------------
(* SpecClick: clicks on the canvas, in either build of the view, with the
   lines at any spring positions and any lines marked as metadata *)

ClickPosYs    == {0, -60000}
ClickYs       == {30000, 100000, 140000, 170000, 400000}
ClickHeights  == {400000}
ClickTracks   ==
    {[i \in 1 .. 3 |-> Line((i - 1) * 5000, meta[i])] : meta \in [1 .. 3 -> BOOLEAN]}
ClickLineStates ==
    {[i \in 0 .. 2 |-> [NewLineState EXCEPT !.posY.current = pos[i]]] :
        pos \in [0 .. 2 -> ClickPosYs]}

InitClick ==
    \E lyr \in ClickTracks : \E ls \in ClickLineStates :
    \E variant \in {"part_003", "LyricsView"} :
        MountedWith(lyr, 0, 0, variant, ls, Fin(0), Stopped(0, 0))

NextClick ==
    \E y \in ClickYs : \E h \in ClickHeights : Click(y, h) /\ UNCHANGED <<steps, pinned, cache>>

SpecClick == InitClick /\ [][NextClick]_vars

\* line i's rectangle [visualY, visualY + height] holds the click
RectContains(i) ==
    LET visualY == VisualY(linesState, layout, i, op.height)
    IN  op.clickY >= visualY /\ op.clickY <= visualY + LineH(layout, i)

LinesHit == {i \in 0 .. (Len(lyrics) - 1) : RectContains(i)}

\* the lines a click can select: the newer view passes over metadata lines
Selectable == {i \in LinesHit : ~(layout.variant = "LyricsView" /\ lyrics[i + 1].isMetadata)}

SeekCall(i) == [time |-> lyrics[i + 1].time, immediate |-> TRUE]

(* C10 as stated: a click makes exactly one onSeekRequest call, for a line
   whose rectangle holds the click, when some line's rectangle does, and none
   otherwise; a click on a metadata line violates it *)
C10_AsStated ==
    op.name = "handleClick" =>
        IF LinesHit = {} THEN seekCalls = <<>>
        ELSE Len(seekCalls) = 1 /\ \E i \in LinesHit : seekCalls[1] = SeekCall(i)

(* C10: a click makes exactly one onSeekRequest call, with (lyrics[i].time,
   true) for the first line i that is selectable and whose rectangle at its
   current spring position holds the click, and no call when there is no such
   line; never more than one call *)
C10_ClickResolution ==
    op.name = "handleClick" =>
        /\ Len(seekCalls) <= 1
        /\ IF Selectable = {} THEN seekCalls = <<>>
           ELSE seekCalls = <<SeekCall(CHOOSE i \in Selectable : \A j \in Selectable : i <= j)>>

\* a click inside several rectangles, the first of them a metadata line's
C10_Witness ==
    /\ op.name = "handleClick"
    /\ layout.variant = "LyricsView"
    /\ Cardinality(LinesHit) = 3
    /\ lyrics[1].isMetadata
    /\ seekCalls = <<SeekCall(1)>>

----------------------------------------------------------------------------
(* SpecLayout: the newer view with tracks of timed words; the lyrics, the
   observed container width and isMobile change, and frames render *)

MaxWords       == 2
MaxLayoutSteps == 2

Short           == Text(2, FALSE, 100000)
Long            == Text(4, FALSE, 150000)
Wide            == Text(20, FALSE, 500000)
Unmeasured      == Text(4, FALSE, 0)
UnmeasuredSpace == Text(1, TRUE, 0)
LayoutTexts     == {Short, Long, Wide, Unmeasured, UnmeasuredSpace}

Word(text, i) == [text |-> text, startTime |-> i * 1000, endTime |-> (i + 1) * 1000]

LayoutWordLists ==
    {[i \in 1 .. Len(ts) |-> Word(ts[i], i)] :
        ts \in UNION {[1 .. m -> LayoutTexts] : m \in 1 .. MaxWords}}

LayoutTranslations == {<<>>, <<120000, 120000>>}

LayoutLine(t, ws, tr) ==
    [time |-> t, isMetadata |-> FALSE, words |-> ws, translation |-> tr]

\* tracks of one line, and of a line after a two-word line that sets the suggested width
LayoutTracks ==
    {<<>>}
    \cup {<<LayoutLine(0, ws, tr)>> :
             ws \in LayoutWordLists, tr \in LayoutTranslations}
    \cup {<<LayoutLine(0, <<Word(Long, 1), Word(Short, 2)>>, <<>>),
             LayoutLine(5000, ws, <<120000, 120000>>)>> : ws \in LayoutWordLists}

SwapTracks ==
    {<<>>,
     <<LayoutLine(0, <<Word(Short, 1), Word(Unmeasured, 2)>>, <<120000, 120000>>)>>,
     <<LayoutLine(0, <<Word(Long, 1), Word(Short, 2)>>, <<>>),
       LayoutLine(5000, <<Word(Short, 1), Word(Unmeasured, 2)>>, <<120000, 120000>>)>>}

ContainerWidths == {0, 300000}

\* the view's state after the effects that follow a change of lyrics, width or isMobile
Measured(lyr, vp) ==
    /\ lyricLines' = MeasureEffect(lyr, vp.containerWidth, vp.isMobile)
    /\ layout' = [layout EXCEPT
                     !.lineHeights = LineHeightsOf(MeasureEffect(lyr, vp.containerWidth,
                                                                 vp.isMobile))]
    /\ op' = [name |-> "measure", dragEnd |-> op.dragEnd, prevLines |-> lyricLines]

SetLyrics(lyr) ==
    /\ lyrics' = lyr
    /\ Measured(lyr, viewport)
    /\ linesState' = InitLineStates(linesState, Len(lyr))
    /\ activeIndex' = ActiveIndexEffect(lyr, currentTime, activeIndex)
    /\ UNCHANGED <<system, moving, currentTime, scrollState, now, visualTime, player,
                   seekCalls, viewport, drawn>>

\* the ResizeObserver reports a width
Resize(w) ==
    /\ viewport' = [viewport EXCEPT !.containerWidth = w]
    /\ Measured(lyrics, viewport')
    /\ UNCHANGED <<system, moving, lyrics, currentTime, activeIndex, linesState,
                   scrollState, now, visualTime, player, seekCalls, drawn>>

SetMobile(b) ==
    /\ viewport' = [viewport EXCEPT !.isMobile = b]
    /\ Measured(lyrics, viewport')
    /\ UNCHANGED <<system, moving, lyrics, currentTime, activeIndex, linesState,
                   scrollState, now, visualTime, player, seekCalls, drawn>>

InitLayout ==
    \E lyr \in LayoutTracks : \E w \in ContainerWidths : \E b \in BOOLEAN :
        /\ lyrics = lyr
        /\ currentTime = 0
        /\ activeIndex = ActiveIndexEffect(lyr, 0, -1)
        /\ linesState = InitLineStates(EmptyMap, Len(lyr))
        /\ scrollState = InitScrollState
        /\ now = 0
        /\ viewport = [containerWidth |-> w, height |-> 400000, isMobile |-> b]
        /\ lyricLines = MeasureEffect(lyr, w, b)
        /\ layout = [lineHeights |-> LineHeightsOf(MeasureEffect(lyr, w, b)),
                     containerHeight |-> 400000, variant |-> "LyricsView"]
        /\ visualTime = Fin(0)
        /\ player = Stopped(0, 0)
        /\ seekCalls = <<>>
        /\ drawn = {}
        /\ system = NewSpringSystem([k \in {"scrollY"} |-> 0])
        /\ moving = FALSE
        /\ steps = 0
        /\ pinned = {}
        /\ cache = NewCache
        /\ op = [name |-> "measure", dragEnd |-> -1, prevLines |-> <<>>]

CountLayout == steps < MaxLayoutSteps /\ steps' = steps + 1 /\ UNCHANGED <<pinned, cache>>

NextLayout ==
    \/ \E lyr \in SwapTracks : SetLyrics(lyr) /\ CountLayout
    \/ \E w \in ContainerWidths : Resize(w) /\ CountLayout
    \/ \E b \in BOOLEAN : SetMobile(b) /\ CountLayout
    \/ Frame(16) /\ CountLayout

SpecLayout == InitLayout /\ [][NextLayout]_vars

WordsOf(obj) == obj.layout[1].words

(* C11 as stated: every word of every measured line ends at or before
   containerWidth - paddingX; a word wider than that violates it *)
C11_AsStated ==
    \A i \in 1 .. Len(lyricLines) : \A j \in 1 .. Len(WordsOf(lyricLines[i])) :
        LET word == WordsOf(lyricLines[i])[j]
        IN  word.x + word.width <=
                lyricLines[i].logicalWidth - PaddingX(lyricLines[i].isMobile)

\* the line objects of the last two measure effects
PrevLines == IF "prevLines" \in DOMAIN op THEN op.prevLines ELSE <<>>
MeasuredObjects ==
    {lyricLines[i] : i \in 1 .. Len(lyricLines)} \cup {PrevLines[i] : i \in 1 .. Len(PrevLines)}

\* two objects measured from the same line text and words, container width and isMobile
SameFourInputs(a, b) ==
    /\ a.lyricLine.words = b.lyricLine.words
    /\ a.lyricLine.translation = b.lyricLine.translation
    /\ a.logicalWidth = b.logicalWidth
    /\ a.isMobile = b.isMobile

(* C12 as stated: two measure calls that agree on the line (text, words), the
   container width and isMobile yield identical words and identical height,
   whatever the suggested translation width was *)
C12_AsStated ==
    \A a \in MeasuredObjects : \A b \in MeasuredObjects :
        SameFourInputs(a, b) => WordsOf(a) = WordsOf(b) /\ a.height = b.height

(* C12: two measure calls that agree on the line, the container width and
   isMobile yield identical words; when they also agree on the
   suggestedTranslationWidth argument they yield identical translation rows
   and identical height *)
C12_LayoutDeterminism ==
    \A a \in MeasuredObjects : \A b \in MeasuredObjects :
        SameFourInputs(a, b) =>
            /\ WordsOf(a) = WordsOf(b)
            /\ a.suggested = b.suggested => a.layout = b.layout /\ a.height = b.height

\* the same two-word line measured twice, with different suggested widths and a
\* different number of translation rows
C12_Witness ==
    \E a \in MeasuredObjects : \E b \in MeasuredObjects :
        /\ SameFourInputs(a, b)
        /\ a.suggested # b.suggested
        /\ a.index # b.index
        /\ Len(WordsOf(a)) = 2
        /\ WordsOf(a) = WordsOf(b)
        /\ a.height # b.height

(* C14: while the container width is <= 0 or the lyric list is empty there is
   no line object, and a render in that condition draws no line *)
C14_NoWidthNoLines ==
    (viewport.containerWidth <= 0 \/ Len(lyrics) = 0) =>
        /\ lyricLines = <<>>
        /\ op.name = "render" => drawn = {}

\* a render of a non-empty track in a container of width 0
C14_Witness ==
    /\ op.name = "render"
    /\ viewport.containerWidth <= 0
    /\ Len(lyrics) > 0
    /\ lyricLines = <<>>
    /\ drawn = {}

\* the words of all line objects, each with the isMobile of its line
ProducedWords ==
    UNION {{[word |-> WordsOf(lyricLines[i])[j], isMobile |-> lyricLines[i].isMobile] :
               j \in 1 .. Len(WordsOf(lyricLines[i]))} : i \in 1 .. Len(lyricLines)}

FallbackWidth(text, isMobile) == text.chars * MulDiv(getFonts(isMobile).baseSize, 1, 2)

(* C15 as stated: every produced word with a non-empty text has width > 0, and
   the width is 0.5 x fontSize x text.length whenever the measurement of a
   non-empty text returned 0 *)
C15_AsStated ==
    \A p \in ProducedWords :
        p.word.text.chars > 0 =>
            /\ p.word.width > 0
            /\ p.word.text.measured = 0 =>
                   p.word.width = FallbackWidth(p.word.text, p.isMobile)

(* C15: every produced word whose text has a character that is not whitespace
   has width > 0, and the width is 0.5 x fontSize x text.length whenever the
   measurement of such a text returned 0 *)
C15_FallbackWidth ==
    \A p \in ProducedWords :
        (p.word.text.chars > 0 /\ ~p.word.text.blank) =>
            /\ p.word.width > 0
            /\ p.word.text.measured = 0 =>
                   p.word.width = FallbackWidth(p.word.text, p.isMobile)

\* a measured line with a word whose measurement returned 0 and whose width is the fallback
C15_Witness ==
    \E p \in ProducedWords :
        /\ p.word.text.measured = 0
        /\ ~p.word.text.blank
        /\ p.word.width = FallbackWidth(p.word.text, p.isMobile)
        /\ p.word.width > 0

(***************************************************************************)
(* Karaoke progress of a word.  renderProgress is <<>> while undefined and *)
(* <<p>> once set; progress values are in 1/10000.                         *)
(***************************************************************************)

Clamp01(p) == Max(0, Min(10000, p))

\* duration in ms; the source compares seconds
shouldUseGlow(word, duration) == duration > 1000 /\ word.text.chars <= 7

computeWordSnapshot(word, ct) ==
    LET duration == word.endTime - word.startTime
        elapsed  == ct - word.startTime
    IN  IF ct <= word.startTime THEN [phase |-> "before", rawProgress |-> 0]
        ELSE IF duration <= 0 \/ ct >= word.endTime
             THEN [phase |-> "after", rawProgress |-> 10000]
        ELSE [phase |-> IF shouldUseGlow(word, duration) THEN "active-glow"
                        ELSE "active-standard",
              rawProgress |-> Clamp01(MulDiv(elapsed, 10000, duration))]

\* easeProgress: the word after the call and the value returned
easeProgress(word, target) ==
    LET rp == IF word.renderProgress = <<>> THEN target
              ELSE LET delta == target - word.renderProgress[1]
                       adaptiveRate == 1500 + MulDiv(Abs(delta), 2, 10)
                   IN  word.renderProgress[1] + MulDiv(delta, Min(adaptiveRate, 4000), 10000)
    IN  [word |-> [word EXCEPT !.renderProgress = <<rp>>], value |-> Clamp01(rp)]

\* a draw that also eases towards 1 after the end of the word
drawLyricWordEasedAfter(word, ct) ==
    LET duration == word.endTime - word.startTime
        elapsed  == ct - word.startTime
        progress == IF ct > word.endTime THEN 10000
                    ELSE IF duration > 0 THEN Clamp01(MulDiv(elapsed, 10000, duration)) ELSE 0
        eased    == easeProgress(word, progress)
    IN  IF ct < word.startTime
        THEN [word |-> [word EXCEPT !.renderProgress = <<0>>], branch |-> "before",
              progress |-> 0, easedProgress |-> 0]
        ELSE [word |-> eased.word, branch |-> IF ct > word.endTime THEN "after" ELSE "within",
              progress |-> progress, easedProgress |-> eased.value]

\* drawLyricWord: the word after the call, the branch taken, and the progress
\* and eased progress of the call (0 and 1 in the branches that compute none)
drawLyricWord(word, ct) ==
    LET duration == word.endTime - word.startTime
        elapsed  == ct - word.startTime
        progress == IF duration > 0 THEN Clamp01(MulDiv(elapsed, 10000, duration)) ELSE 0
        eased    == easeProgress(word, progress)
    IN  IF ct < word.startTime
        THEN [word |-> [word EXCEPT !.renderProgress = <<0>>], branch |-> "before",
              progress |-> 0, easedProgress |-> 0]
        ELSE IF ct > word.endTime
        THEN [word |-> [word EXCEPT !.renderProgress = <<10000>>], branch |-> "after",
              progress |-> 10000, easedProgress |-> 10000]
        ELSE [word |-> eased.word, branch |-> "within",
              progress |-> progress, easedProgress |-> eased.value]

\* the snapshot drawFullLine stores with a word it has drawn
StoredSnapshot(word, ct) ==
    LET snapshot == computeWordSnapshot(word, ct)
    IN  [phase |-> snapshot.phase, rawProgress |-> snapshot.rawProgress,
         lastGlowSample |-> IF snapshot.phase = "active-glow" THEN <<ct>> ELSE <<>>]

\* LyricLine.draw of a line with timed words: the object after the call
DrawLine(obj, ct, isActive) ==
    [obj EXCEPT !.layout[1].words =
        [j \in 1 .. Len(WordsOf(obj)) |->
            IF isActive
            THEN [drawLyricWord(WordsOf(obj)[j], ct).word EXCEPT
                      !.renderSnapshot = <<StoredSnapshot(WordsOf(obj)[j], ct)>>]
            ELSE [WordsOf(obj)[j] EXCEPT !.renderProgress = <<>>,
                                         !.renderSnapshot = <<>>]],
                !.isDirty = FALSE]

\* a redraw test that lets the standard sweep fall 0.004 behind
shouldRedrawWordLoose(word, snapshot, ct) ==
    IF word.renderSnapshot = <<>> THEN TRUE
    ELSE LET last == word.renderSnapshot[1]
             progressDelta == Abs(snapshot.rawProgress - last.rawProgress)
             timeDelta == \/ last.lastGlowSample \in {<<>>, <<0>>}
                          \/ ct - last.lastGlowSample[1] > 50
         IN  IF last.phase # snapshot.phase THEN TRUE
             ELSE IF snapshot.phase = "active-standard" THEN progressDelta > 40
             ELSE IF snapshot.phase = "active-glow" THEN progressDelta > 20 \/ timeDelta
             ELSE FALSE

\* shouldRedrawWord: progress in 1/10000, times in ms
shouldRedrawWord(word, snapshot, ct) ==
    IF word.renderSnapshot = <<>> THEN TRUE
    ELSE LET last == word.renderSnapshot[1]
             progressDelta == Abs(snapshot.rawProgress - last.rawProgress)
             timeDelta == \/ last.lastGlowSample \in {<<>>, <<0>>}
                          \/ ct - last.lastGlowSample[1] > 50
         IN  IF last.phase # snapshot.phase THEN TRUE
             ELSE IF snapshot.phase = "active-standard" THEN progressDelta > 30
             ELSE IF snapshot.phase = "active-glow" THEN progressDelta > 20 \/ timeDelta
             ELSE FALSE

\* layout.words.some(w => w.isVerbatim): the words the model lays out all come
\* from line.words and are verbatim
hasTimedWords(obj) == Len(WordsOf(obj)) > 0

\* drawFullLine: the words, and the bitmap cleared and painted
drawFullLine(obj, ct, isActive, isHovered) ==
    [DrawLine(obj, ct, isActive) EXCEPT
        !.canvas = <<[isActive |-> isActive, isHovered |-> isHovered]>>]

\* a repaint test whose first early return does not compare the hover state
RepaintsIgnoringHover(obj, ct, isActive, isHovered) ==
    LET stateUnchanged == ~isActive /\ ~obj.isDirty /\ ~obj.lastIsActive
        stateChanged   == obj.lastIsActive # isActive \/ obj.lastIsHovered # isHovered
        canIncremental == ~obj.isDirty /\ isActive /\ hasTimedWords(obj) /\ ~stateChanged
        needsWordUpdate ==
            \E j \in 1 .. Len(WordsOf(obj)) :
                shouldRedrawWord(WordsOf(obj)[j], computeWordSnapshot(WordsOf(obj)[j], ct), ct)
    IN  /\ ~stateUnchanged
        /\ ~(isActive /\ ~hasTimedWords(obj) /\ ~obj.isDirty /\ ~stateChanged)
        /\ canIncremental => needsWordUpdate

\* draw of a line with a layout: whether the call reaches drawFullLine
Repaints(obj, ct, isActive, isHovered) ==
    LET stateUnchanged == /\ ~isActive /\ ~obj.isDirty /\ ~obj.lastIsActive
                          /\ obj.lastIsHovered = isHovered
        stateChanged   == obj.lastIsActive # isActive \/ obj.lastIsHovered # isHovered
        canIncremental == ~obj.isDirty /\ isActive /\ hasTimedWords(obj) /\ ~stateChanged
        needsWordUpdate ==
            \E j \in 1 .. Len(WordsOf(obj)) :
                shouldRedrawWord(WordsOf(obj)[j], computeWordSnapshot(WordsOf(obj)[j], ct), ct)
    IN  /\ ~stateUnchanged
        /\ ~(isActive /\ ~hasTimedWords(obj) /\ ~obj.isDirty /\ ~stateChanged)
        /\ canIncremental => needsWordUpdate

\* LyricLine.draw(currentTime, isActive, isHovered): the object after the call
draw(obj, ct, isActive, isHovered) ==
    IF obj.layout = <<>> THEN obj
    ELSE IF ~Repaints(obj, ct, isActive, isHovered) THEN obj
    ELSE [drawFullLine(obj, ct, isActive, isHovered) EXCEPT
             !.lastIsActive = isActive, !.lastIsHovered = isHovered, !.isDirty = FALSE]

MaxKaraokeSteps == 4

KaraokeTimes == {500, 1000, 1250, 1500, 2000, 2500, 3000, 3500}

\* a one-second word (standard sweep) and a two-second word (glow)
KaraokeTracks ==
    {<<LayoutLine(0, <<[text |-> Short, startTime |-> 1000, endTime |-> e]>>, <<>>)>> :
        e \in {2000, 3000}}

InitKaraoke ==
    \E lyr \in KaraokeTracks :
        /\ lyrics = lyr
        /\ currentTime = 0
        /\ activeIndex = ActiveIndexEffect(lyr, 0, -1)
        /\ linesState = InitLineStates(EmptyMap, Len(lyr))
        /\ scrollState = InitScrollState
        /\ now = 0
        /\ viewport = [containerWidth |-> 300000, height |-> 400000, isMobile |-> FALSE]
        /\ lyricLines = MeasureEffect(lyr, 300000, FALSE)
        /\ layout = [lineHeights |-> LineHeightsOf(MeasureEffect(lyr, 300000, FALSE)),
                     containerHeight |-> 400000, variant |-> "LyricsView"]
        /\ visualTime = Fin(0)
        /\ player = Stopped(0, 0)
        /\ seekCalls = <<>>
        /\ drawn = {}
        /\ system = NewSpringSystem([k \in {"scrollY"} |-> 0])
        /\ moving = FALSE
        /\ steps = 0
        /\ pinned = {}
        /\ cache = NewCache
        /\ op = [name |-> "measure", dragEnd |-> -1]

\* line.draw(ct, true, false) on the active line
DrawActive(ct) ==
    /\ steps < MaxKaraokeSteps
    /\ steps' = steps + 1
    /\ lyricLines' = [lyricLines EXCEPT ![1] = draw(lyricLines[1], ct, TRUE, FALSE)]
    /\ op' = [name |-> IF Repaints(lyricLines[1], ct, TRUE, FALSE) THEN "drawLyricWord"
                       ELSE "draw",
              dragEnd |-> -1, currentTime |-> ct,
              before |-> WordsOf(lyricLines[1])[1],
              snapshot |-> computeWordSnapshot(WordsOf(lyricLines[1])[1], ct),
              call |-> drawLyricWord(WordsOf(lyricLines[1])[1], ct)]
    /\ UNCHANGED <<system, moving, lyrics, currentTime, activeIndex, linesState, scrollState,
                   now, pinned, cache, layout, visualTime, player, seekCalls, viewport, drawn>>

\* line.draw(ct, false, false): the line is not the active one
DrawInactive ==
    /\ steps < MaxKaraokeSteps
    /\ steps' = steps + 1
    /\ lyricLines' = [lyricLines EXCEPT ![1] = draw(lyricLines[1], 0, FALSE, FALSE)]
    /\ op' = [name |-> "draw", dragEnd |-> -1]
    /\ UNCHANGED <<system, moving, lyrics, currentTime, activeIndex, linesState, scrollState,
                   now, pinned, cache, layout, visualTime, player, seekCalls, viewport, drawn>>

NextKaraoke ==
    \/ \E ct \in KaraokeTimes : DrawActive(ct)
    \/ DrawInactive

SpecKaraoke == InitKaraoke /\ [][NextKaraoke]_vars

InUnit(p) == 0 <= p /\ p <= 10000

(* C13 as stated: for a word with endTime > startTime, rawProgress, progress
   and the eased progress are in [0,1], 0 for every currentTime <= startTime
   and 1 for every currentTime >= endTime *)
C13_AsStated ==
    op.name = "drawLyricWord" =>
        \A p \in {op.snapshot.rawProgress, op.call.progress, op.call.easedProgress} :
            /\ InUnit(p)
            /\ op.currentTime <= op.before.startTime => p = 0
            /\ op.currentTime >= op.before.endTime => p = 10000

(* C13: rawProgress and progress are in [0,1], 0 for currentTime <= startTime
   and 1 for currentTime >= endTime; the eased progress is in [0,1], 0 for
   currentTime < startTime and 1 for currentTime > endTime *)
C13_ProgressBounds ==
    op.name = "drawLyricWord" =>
        /\ \A p \in {op.snapshot.rawProgress, op.call.progress} :
               /\ InUnit(p)
               /\ op.currentTime <= op.before.startTime => p = 0
               /\ op.currentTime >= op.before.endTime => p = 10000
        /\ InUnit(op.call.easedProgress)
        /\ op.currentTime < op.before.startTime => op.call.easedProgress = 0
        /\ op.currentTime > op.before.endTime => op.call.easedProgress = 10000

\* a draw after the end of a word whose renderProgress was still below 1
C13_Witness ==
    /\ op.name = "drawLyricWord"
    /\ op.currentTime > op.before.endTime
    /\ op.before.renderProgress # <<>>
    /\ op.before.renderProgress # <<10000>>
    /\ op.call.easedProgress = 10000

----------------------------------------------------------------------------
(* SpecHook: the hook driven by frames with the isScrubbing prop false or
   true, pointer and wheel events and time updates *)

MaxHookSteps == 3
HookDeltas   == {16, 3100}

CountHook == steps < MaxHookSteps /\ steps' = steps + 1 /\ UNCHANGED <<pinned, cache>>

InitHook == \E t \in MountClocks : Mounted(CameraTrack, 0, t, "part_003")

NextHook ==
    \/ \E d \in HookDeltas : \E b \in BOOLEAN : Render(d, b) /\ CountHook
    \/ \E y \in PointerYs : TouchStart(y) /\ CountHook
    \/ \E y \in PointerYs : TouchMove(y) /\ CountHook
    \/ TouchEnd /\ CountHook
    \/ \E w \in WheelDeltas : Wheel(w) /\ CountHook
    \/ \E t \in CameraTimes : TimeUpdate(t) /\ CountHook

SpecHook == InitHook /\ [][NextHook]_vars

(* C16: a frame tick runs the auto-follow branch only if no drag is in
   progress and now - lastInteractionTime >= 3000 ms; a tick during a drag
   (without scrubbing) runs the user-scrolling branch however long the drag
   has been held *)
C16_AutoFollowOnlyWhenIdle ==
    op.name = "render" =>
        /\ op.mode = "auto" =>
               /\ ~scrollState.isDragging
               /\ now - scrollState.lastInteractionTime >= 3000
        /\ (scrollState.isDragging /\ op.mode # "scrub") => op.mode = "user"

\* a tick of a drag held for more than 3000 ms, the camera away from the active line
C16_Witness ==
    /\ op.name = "render"
    /\ scrollState.isDragging
    /\ now - scrollState.lastInteractionTime > 3000
    /\ op.mode = "user"
    /\ TargetOf(system, "scrollY") # computeActiveScrollTarget(activeIndex, layout)

Stamped == scrollState.lastInteractionTime = now

(* C17 as stated: every onTouchStart, onTouchMove and onWheel event sets
   lastInteractionTime to the time of the event, whether or not a drag is in
   progress *)
C17_AsStated ==
    op.name \in {"onTouchStart", "onTouchMove", "onWheel"} => Stamped

(* C17: every onTouchStart and onWheel event, and every onTouchMove event
   delivered while a drag is in progress, sets lastInteractionTime to the time
   of the event *)
C17_InteractionStamped ==
    /\ op.name \in {"onTouchStart", "onWheel"} => Stamped
    /\ (op.name = "onTouchMove" /\ scrollState.isDragging) => Stamped

\* a wheel event outside a drag, after a frame has advanced the clock
C17_Witness ==
    /\ op.name = "onWheel"
    /\ ~scrollState.isDragging
    /\ now \notin MountClocks
    /\ Stamped

----------------------------------------------------------------------------
(* SpecIdle: the hook from its creation with frames and time updates only;
   no pointer or wheel event is ever delivered *)

MaxIdleSteps == 5

CountIdle == steps < MaxIdleSteps /\ steps' = steps + 1 /\ UNCHANGED <<pinned, cache>>

InitIdle == \E t \in MountClocks : Mounted(CameraTrack, 0, t, "part_003")

NextIdle ==
    \/ \E d \in FrameDeltas : Frame(d) /\ CountIdle
    \/ \E t \in CameraTimes : TimeUpdate(t) /\ CountIdle

SpecIdle == InitIdle /\ [][NextIdle]_vars

(* C18 as stated: when no user input event has ever been delivered, every
   frame tick runs in auto-follow mode, whatever the clock at creation *)
C18_AsStated == op.name = "render" => op.mode = "auto"

(* C19 as stated: at the end of every frame tick that runs during a drag or
   with scrubbing signalled, each line's posY.current equals its posY.target,
   the negated camera scrollY, and its posY.velocity is 0 *)
C19_AsStated ==
    (op.name = "render" /\ (scrollState.isDragging \/ op.mode = "scrub")) =>
        \A i \in DOMAIN linesState :
            /\ linesState[i].posY.target = -GetCurrent(system, "scrollY")
            /\ linesState[i].posY.current = linesState[i].posY.target
            /\ linesState[i].posY.velocity = 0

----------------------------------------------------------------------------
(* SpecFollow: auto-follow runs.  The hook is created at clock 10000 with a
   fixed track, time and layout; frames arrive at a fixed interval, kept in
   viewport.frameInterval, and no event is delivered.  The hook reads the
   clock only to compare now - lastInteractionTime with 3000 ms, and
   lastInteractionTime stays 0, so clocks from MaxFollowClock on are
   identified.  steps is the parity of the number of frames. *)

MaxFollowClock  == 10100
FollowIntervals == {16, 33, 64}
FollowStarts    == {0, 300000}

InitFollow ==
    \E ct \in LineTimes : \E d \in FollowIntervals : \E y \in FollowStarts :
        /\ lyrics = CameraTrack
        /\ currentTime = ct
        /\ activeIndex = ActiveIndexEffect(CameraTrack, ct, -1)
        /\ linesState = InitLineStates(EmptyMap, Len(CameraTrack))
        /\ scrollState = InitScrollState
        /\ now = 10000
        /\ layout = [lineHeights |-> Heights(Len(CameraTrack)), containerHeight |-> 400000,
                     variant |-> "part_003"]
        /\ visualTime = Fin(ct)
        /\ player = Stopped(ct, 10000)
        /\ seekCalls = <<>>
        /\ lyricLines = [i \in 1 .. Len(CameraTrack) |->
                            MeasuredTo(CameraTrack[i], i - 1, Heights(Len(CameraTrack))[i])]
        /\ viewport = [containerWidth |-> 800000, height |-> 400000, isMobile |-> FALSE,
                       frameInterval |-> d]
        /\ drawn = {}
        /\ system = NewSpringSystem([k \in {"scrollY"} |-> y])
        /\ moving = FALSE
        /\ steps = 0
        /\ pinned = {}
        /\ cache = NewCache
        /\ op = HookOp("mount", -1, "", FALSE, Fin(ct))

FollowFrame ==
    /\ RenderAt(Min(now + viewport.frameInterval, MaxFollowClock), viewport.frameInterval,
                FALSE)
    /\ steps' = 1 - steps
    /\ UNCHANGED <<pinned, cache>>

NextFollow == FollowFrame

\* the count part of a frame: always enabled, and taken by every FollowFrame step
FollowTick == steps' = 1 - steps

\* requestAnimationFrame keeps delivering frames
SpecFollow == InitFollow /\ [][NextFollow]_vars /\ WF_steps(FollowTick)

\* the camera on the active line's centre and every line at rest on the camera
Settled ==
    /\ GetCurrent(system, "scrollY") =
           LineY(layout, activeIndex) + MulDiv(LineH(layout, activeIndex), 1, 2)
    /\ \A i \in DOMAIN linesState :
           /\ linesState[i].posY.current = -GetCurrent(system, "scrollY")
           /\ linesState[i].posY.velocity = 0

(* C20 as stated: in auto-follow with a fixed activeIndex a >= 0, a fixed
   layout and no input, repeated frame ticks eventually reach a state with
   scrollY on linePositions[a] + lineHeights[a]/2 and every line's
   posY.current on -scrollY with velocity 0, and every later tick keeps it *)
C20_AsStated == activeIndex >= 0 => <>[]Settled

----------------------------------------------------------------------------
(* SpecPointer: the pointer on the lyrics container.  Frames (the view passes
   isScrubbing false), touch or mouse down, move and up, the mouse leaving the
   container, and the wheel, in any order.  Pointer positions include one a
   tenth of a pixel from another, which gives a drag velocity below the
   inertia threshold. *)

MaxPointerSteps == 5
PointerMoves    == PointerYs \cup {99900}

CountPointer == steps < MaxPointerSteps /\ steps' = steps + 1 /\ UNCHANGED <<pinned, cache>>

InitPointer == \E t \in MountClocks : Mounted(CameraTrack, 0, t, "part_003")

NextPointer ==
    \/ \E d \in FrameDeltas : Frame(d) /\ CountPointer
    \/ \E y \in PointerYs : TouchStart(y) /\ CountPointer
    \/ \E y \in PointerMoves : TouchMove(y) /\ CountPointer
    \/ TouchEnd /\ CountPointer
    \/ MouseLeave /\ CountPointer
    \/ \E w \in WheelDeltas : Wheel(w) /\ CountPointer

SpecPointer == InitPointer /\ [][NextPointer]_vars

\* the step is a frame tick that ran the user-scrolling branch
UserTick == op'.name = "render" /\ op'.mode = "user"

(* C21 as stated: a frame tick in user-scrolling mode with no drag in progress
   and |touchVelocity| <= 10 px/s leaves the camera's scrollY as it was,
   however user-scrolling mode was entered *)
C21_AsStated ==
    [][(UserTick /\ ~scrollState.isDragging /\ Abs(scrollState.touchVelocity) <= 10000)
          => GetCurrent(system', "scrollY") = GetCurrent(system, "scrollY")]_vars

\* the frame's dt in ms, from the clocks before and after the step
TickDt == Min(now' - now, MaxDeltaTime)

\* the tick applies the residual drag velocity
Coasts ==
    /\ UserTick
    /\ ~scrollState.isDragging
    /\ Abs(scrollState.touchVelocity) > 10000

(* C22: on a frame tick, touchVelocity v is applied to the camera (scrollY
   grows by v * dt and v becomes 0.92 * v) exactly when the tick runs in
   user-scrolling mode with no drag in progress and |v| > 10 px/s; on every
   other tick v is unchanged and scrollY is what the tick gives with v = 0 *)
C22_InertialCoasting ==
    [][op'.name = "render" =>
          IF Coasts
          THEN /\ GetCurrent(system', "scrollY") =
                      GetCurrent(system, "scrollY")
                          + MulDiv(scrollState.touchVelocity, TickDt, 1000)
               /\ scrollState'.touchVelocity = MulDiv(scrollState.touchVelocity, 92, 100)
          ELSE /\ scrollState'.touchVelocity = scrollState.touchVelocity
               /\ GetCurrent(system', "scrollY") =
                      GetCurrent(CameraStep(system,
                                            [scrollState EXCEPT !.touchVelocity = 0],
                                            activeIndex, layout, now', TickDt,
                                            FALSE).system, "scrollY")]_vars

\* the first tick after a 30 px drag was released: 1800 px/s over 16 ms
C22_Witness ==
    /\ op.name = "render"
    /\ op.mode = "user"
    /\ ~scrollState.isDragging
    /\ scrollState.touchVelocity = 1656000
    /\ GetCurrent(system, "scrollY") = 30000 + 28800

(* C26: during a drag, for any interleaving of onTouchMove events and frame
   ticks, scrollY minus its value at the drag's start is the pointer Y at the
   start minus the pointer Y of the latest move.  onTouchStart makes
   touchLastY the starting Y, so this is: every move and every tick during
   the drag keeps scrollY + touchLastY, and a tick keeps scrollY itself *)
C26_DragTracksPointer ==
    [][(scrollState.isDragging /\ op'.name \in {"render", "onTouchMove"}) =>
          /\ GetCurrent(system', "scrollY") + scrollState'.touchLastY =
                 GetCurrent(system, "scrollY") + scrollState.touchLastY
          /\ op'.name = "render" =>
                 GetCurrent(system', "scrollY") = GetCurrent(system, "scrollY")]_vars

\* a drag from 100 px over 70 px to 99.9 px with a tick in between: the camera
\* is 0.1 px from where it was, the lines have been pulled towards 30 px
C26_Witness ==
    /\ op.name = "onTouchMove"
    /\ scrollState.isDragging
    /\ scrollState.touchStartY = 100000
    /\ scrollState.touchLastY = 99900
    /\ GetCurrent(system, "scrollY") = 100
    /\ linesState[0].posY.current < -1000

(* C27 as stated: an onTouchEnd delivered while no drag is in progress (here
   by the mouse leaving the container) leaves the controller's mode
   unchanged: if the tick before it ran in auto-follow mode, the tick after
   it runs in auto-follow mode *)
C27_AsStated ==
    [][(/\ op.name = "onMouseLeave"
        /\ op.dragEnd = -1
        /\ op.mode = "auto"
        /\ op'.name = "render") => op'.mode = "auto"]_vars

----------------------------------------------------------------------------
(* SpecProfile: the line springs in a track long enough to have lines more
   than 8 ahead of the active one.  Frames, time updates (seeks) and the
   wheel, from a hook created at clock 10000. *)

ProfileLines    == 10
MaxProfileSteps == 4
ProfileTrack    == [i \in 1 .. ProfileLines |-> Line((i - 1) * 1000, FALSE)]
ProfileTimes    == {0, 4000, 9000}

CountProfile == steps < MaxProfileSteps /\ steps' = steps + 1 /\ UNCHANGED <<pinned, cache>>

InitProfile == \E ct \in ProfileTimes : Mounted(ProfileTrack, ct, 10000, "part_003")

NextProfile ==
    \/ \E d \in FrameDeltas : Frame(d) /\ CountProfile
    \/ \E t \in ProfileTimes : TimeUpdate(t) /\ CountProfile
    \/ \E w \in WheelDeltas : Wheel(w) /\ CountProfile

SpecProfile == InitProfile /\ [][NextProfile]_vars

\* the step is a frame tick that ran the auto-follow branch
AutoTick == op'.name = "render" /\ op'.mode = "auto"

\* line i's position spring as the tick finds it: its target set to the negated
\* new scrollY, and snapped onto it if it is more than two container heights away
TickPosY(i) ==
    LET target == -GetCurrent(system', "scrollY")
    IN  IF Abs(linesState[i].posY.current - target) > layout.containerHeight * 2
        THEN [current |-> target, velocity |-> 0, target |-> target]
        ELSE [linesState[i].posY EXCEPT !.target = target]

\* the profiles by index distance: stiffness max(40, 300 * 0.5^d) and damping
\* 2 * sqrt(stiffness) come to 150 and 24.49, 75 and 17.32, then 40 and 12.64
DistanceProfile(d) ==
    IF d <= 0 THEN Config(10, 1200, 6000, <<100>>)
    ELSE IF d = 1 THEN Config(10, 150, 2449, <<100>>)
    ELSE IF d = 2 THEN Config(10, 75, 1732, <<100>>)
    ELSE IF d <= 8 THEN Config(10, 40, 1264, <<100>>)
    ELSE Config(10, 40, 2000, <<100>>)

MovingDownProfile == Config(10, 350, 4000, <<100>>)

\* the tick finds line i more than 1 px above its target
MovingDown(i) == TickPosY(i).target > TickPosY(i).current + 1000

(* C23 as stated: on a tick in auto-follow mode the position spring of line i
   is stepped with the profile of d = i - activeIndex alone *)
C23_AsStated ==
    [][AutoTick =>
          \A i \in DOMAIN linesState :
              linesState'[i].posY =
                  updateSpring(TickPosY(i), DistanceProfile(i - activeIndex), TickDt)]_vars

(* C23: on a tick in auto-follow mode the position spring of line i is stepped
   with stiffness 350 and damping 40 when the line is more than 1 px above its
   target, and otherwise with the profile of d = i - activeIndex: 1200 and 60
   for d <= 0, max(40, 300 * 0.5^d) and 2 * sqrt(stiffness) for 1 <= d <= 8,
   40 and 20 for d > 8 *)
C23_LineSpringProfile ==
    [][AutoTick =>
          \A i \in DOMAIN linesState :
              linesState'[i].posY =
                  updateSpring(TickPosY(i),
                               IF MovingDown(i) THEN MovingDownProfile
                               ELSE DistanceProfile(i - activeIndex),
                               TickDt)]_vars

\* the second of two auto-follow ticks (64 ms, then 16 ms) with the first line
\* active: line 0 overshot on the first tick and was stepped with the
\* moving-down profile on the second, line 9 with the profile for d > 8
C23_Witness ==
    /\ op.name = "render"
    /\ op.mode = "auto"
    /\ activeIndex = 0
    /\ linesState[0].posY = [current |-> -41152, velocity |-> -55457, target |-> -9723]
    /\ linesState[9].posY.velocity < 0
    /\ linesState[9].posY.current > linesState[9].posY.target

----------------------------------------------------------------------------
(* SpecTracks: the lyrics prop changes between tracks of different lengths
   while frames move the lines.  The tracks are the prefixes of one track. *)

MaxTrackSteps == 4
TrackPrefixes == {SubSeq(CameraTrack, 1, n) : n \in 0 .. Len(CameraTrack)}

CountTracks == steps < MaxTrackSteps /\ steps' = steps + 1 /\ UNCHANGED <<pinned, cache>>

InitTracks == \E lyr \in TrackPrefixes : Mounted(lyr, 0, 10000, "part_003")

NextTracks ==
    \/ \E d \in FrameDeltas : Frame(d) /\ CountTracks
    \/ \E lyr \in TrackPrefixes : LoadLyrics(lyr, Heights(Len(lyr))) /\ CountTracks
    \/ \E t \in CameraTimes : TimeUpdate(t) /\ CountTracks

SpecTracks == InitTracks /\ [][NextTracks]_vars

\* an entry as the effect creates it: posY 0, scale 1, velocities 0
FreshLineState(s) ==
    /\ s.posY = [current |-> 0, velocity |-> 0, target |-> 0]
    /\ s.scale = [current |-> 10000, velocity |-> 0, target |-> 10000]

(* C24: after the line-state initialisation has run for a lyric list of
   length n, the keys of the per-line physics map are exactly 0 .. n-1; the
   entries of indices that existed before keep their spring state and the
   entries of new indices have posY 0, scale 1 and zero velocities *)
C24_LineStateKeys ==
    [][op'.name = "loadLyrics" =>
          /\ DOMAIN linesState' = 0 .. (Len(lyrics') - 1)
          /\ \A i \in DOMAIN linesState' :
                 IF i \in DOMAIN linesState
                 THEN linesState'[i] = linesState[i]
                 ELSE FreshLineState(linesState'[i])]_vars

\* a track of three lines loaded over a shorter one whose lines had moved
C24_Witness ==
    /\ op.name = "loadLyrics"
    /\ DOMAIN linesState = 0 .. 2
    /\ linesState[0].posY.current # 0
    /\ linesState[0].posY.velocity # 0
    /\ FreshLineState(linesState[2])

----------------------------------------------------------------------------
(* SpecDraw: measure and draw calls on one line object, in any order.  The
   line has a one-second word (standard sweep) followed by a two-second word
   (glow), or one fifty-second word (glow), or no timed words.  The draw times
   lie 3, 4 and 6 ms apart inside the words, and 60 ms apart inside the long
   one. *)

MaxDrawSteps == 3

DrawTimes == {1500, 1503, 1504, 3000, 3004, 3006, 20000, 20060}

DrawTracks ==
    {<<LayoutLine(0, <<[text |-> Short, startTime |-> 1000, endTime |-> 2000],
                       [text |-> Short, startTime |-> 2000, endTime |-> 4000]>>, <<>>)>>,
     <<LayoutLine(0, <<[text |-> Short, startTime |-> 1000, endTime |-> 51000]>>, <<>>)>>,
     <<LayoutLine(0, <<>>, <<>>)>>}

InitDraw ==
    \E lyr \in DrawTracks :
        /\ lyrics = lyr
        /\ currentTime = 0
        /\ activeIndex = ActiveIndexEffect(lyr, 0, -1)
        /\ linesState = InitLineStates(EmptyMap, Len(lyr))
        /\ scrollState = InitScrollState
        /\ now = 0
        /\ viewport = [containerWidth |-> 300000, height |-> 400000, isMobile |-> FALSE]
        /\ lyricLines = MeasureEffect(lyr, 300000, FALSE)
        /\ layout = [lineHeights |-> LineHeightsOf(MeasureEffect(lyr, 300000, FALSE)),
                     containerHeight |-> 400000, variant |-> "LyricsView"]
        /\ visualTime = Fin(0)
        /\ player = Stopped(0, 0)
        /\ seekCalls = <<>>
        /\ drawn = {}
        /\ system = NewSpringSystem([k \in {"scrollY"} |-> 0])
        /\ moving = FALSE
        /\ steps = 0
        /\ pinned = {}
        /\ cache = NewCache
        /\ op = [name |-> "measure", dragEnd |-> -1]

\* line.draw(ct, isActive, isHovered)
Draw(ct, isActive, isHovered) ==
    /\ steps < MaxDrawSteps
    /\ steps' = steps + 1
    /\ lyricLines' = [lyricLines EXCEPT ![1] = draw(lyricLines[1], ct, isActive, isHovered)]
    /\ op' = [name |-> "draw", dragEnd |-> -1, currentTime |-> ct, isActive |-> isActive,
              isHovered |-> isHovered,
              repainted |-> Repaints(lyricLines[1], ct, isActive, isHovered)]
    /\ UNCHANGED <<system, moving, lyrics, currentTime, activeIndex, linesState, scrollState,
                   now, pinned, cache, layout, visualTime, player, seekCalls, viewport, drawn>>

\* line.measure(containerWidth, suggested) on the same object
Remeasure ==
    /\ steps < MaxDrawSteps
    /\ steps' = steps + 1
    /\ lyricLines' = [lyricLines EXCEPT ![1] = measure(lyricLines[1], viewport.containerWidth,
                                                       lyricLines[1].suggested)]
    /\ op' = [name |-> "measure", dragEnd |-> -1]
    /\ UNCHANGED <<system, moving, lyrics, currentTime, activeIndex, linesState, scrollState,
                   now, pinned, cache, layout, visualTime, player, seekCalls, viewport, drawn>>

NextDraw ==
    \/ \E ct \in DrawTimes : \E a \in BOOLEAN : \E h \in BOOLEAN : Draw(ct, a, h)
    \/ Remeasure

SpecDraw == InitDraw /\ [][NextDraw]_vars

\* how far a stored snapshot may lie behind, by phase, in 1/10000
Staleness(phase) ==
    IF phase = "active-standard" THEN 30
    ELSE IF phase = "active-glow" THEN 20
    ELSE 0

(* C25: after every draw call on an active line with timed words, each word
   has a rendered snapshot whose phase is the word's phase at the draw's
   currentTime and whose rawProgress differs from the word's progress at that
   time by at most 0.003 in the active-standard phase and 0.002 in the
   active-glow phase *)
C25_BoundedStaleness ==
    (op.name = "draw" /\ op.isActive /\ hasTimedWords(lyricLines[1])) =>
        \A j \in 1 .. Len(WordsOf(lyricLines[1])) :
            LET word == WordsOf(lyricLines[1])[j]
                at   == computeWordSnapshot(word, op.currentTime)
            IN  /\ word.renderSnapshot # <<>>
                /\ word.renderSnapshot[1].phase = at.phase
                /\ Abs(word.renderSnapshot[1].rawProgress - at.rawProgress)
                       <= Staleness(at.phase)

\* a draw 3 ms into the sweep after the last repaint: skipped, the first word's
\* snapshot exactly 0.003 behind
C25_Witness ==
    /\ op.name = "draw"
    /\ op.isActive
    /\ ~op.repainted
    /\ op.currentTime = 1503
    /\ Len(WordsOf(lyricLines[1])) = 2
    /\ WordsOf(lyricLines[1])[1].renderSnapshot[1].rawProgress = 5000

(* C29: whenever draw(time, isActive, isHovered) returns on a line that has a
   layout, the bitmap is not blank (it was painted after the most recent
   measure, which clears it) and was last painted with that (isActive,
   isHovered) pair *)
C29_BitmapShowsState ==
    (op.name = "draw" /\ lyricLines[1].layout # <<>>) =>
        lyricLines[1].canvas = <<[isActive |-> op.isActive, isHovered |-> op.isHovered]>>

\* a draw as hovered inactive line that was skipped
C29_Witness ==
    /\ op.name = "draw"
    /\ ~op.repainted
    /\ ~op.isActive
    /\ op.isHovered
    /\ lyricLines[1].canvas = <<[isActive |-> FALSE, isHovered |-> TRUE]>>

----------------------------------------------------------------------------
(* SpecStep: one updateSpring step of a line's position spring from rest,
   for each configuration updatePhysics can select, each dt from 1 ms to the
   renderer's clamp, and a line above or below its target *)

UserProfile == Config(5, 400, 3500, <<100>>)

\* past/active, future lines at distance 1 .. 8, far-future, user-interacting,
\* moving-down
StepConfigs ==
    {getLinePosSpring(d) : d \in 0 .. 9} \cup {UserProfile, MovingDownProfile}

StepDts           == 1 .. MaxDeltaTime
StepDisplacements == {-10000, 10000}

InitStep ==
    \E c \in StepConfigs : \E d \in StepDts : \E x \in StepDisplacements :
        /\ lyrics = <<Line(0, FALSE)>>
        /\ currentTime = 0
        /\ activeIndex = 0
        /\ linesState = [i \in {0} |-> [NewLineState EXCEPT !.posY.current = x]]
        /\ scrollState = InitScrollState
        /\ now = 10000
        /\ layout = [lineHeights |-> Heights(1), containerHeight |-> 400000,
                     variant |-> "part_003"]
        /\ visualTime = Fin(0)
        /\ player = Stopped(0, 10000)
        /\ seekCalls = <<>>
        /\ lyricLines = <<MeasuredTo(Line(0, FALSE), 0, Heights(1)[1])>>
        /\ viewport = [containerWidth |-> 800000, height |-> 400000, isMobile |-> FALSE]
        /\ drawn = {}
        /\ system = NewSpringSystem([k \in {"scrollY"} |-> 0])
        /\ moving = FALSE
        /\ steps = 0
        /\ pinned = {}
        /\ cache = NewCache
        /\ op = [name |-> "mount", dragEnd |-> -1, config |-> c, dt |-> d]

\* updateSpring(state.posY, posConfig, dt)
SpringStep ==
    /\ steps = 0
    /\ steps' = 1
    /\ linesState' = [linesState EXCEPT ![0].posY = updateSpring(@, op.config, op.dt)]
    /\ op' = [name |-> "updateSpring", dragEnd |-> -1, config |-> op.config, dt |-> op.dt,
              before |-> linesState[0].posY]
    /\ UNCHANGED <<system, moving, lyrics, currentTime, activeIndex, scrollState, now,
                   pinned, cache, layout, visualTime, player, seekCalls, lyricLines, viewport,
                   drawn>>

NextStep == SpringStep

SpecStep == InitStep /\ [][NextStep]_vars

(* C28 as stated: for every position-spring configuration the line physics
   can select and every dt up to 64 ms, one updateSpring step from zero
   velocity does not increase |current - target| *)
C28_AsStated ==
    op.name = "updateSpring" =>
        Abs(linesState[0].posY.current - linesState[0].posY.target)
            <= Abs(op.before.current - op.before.target)

----------------------------------------------------------------------------
(* services/cache.ts: the size-limited LRU cache under get, set, delete and
   clear.  A blob is modelled by its size; the Map is the sequence of its
   entries in insertion order, so that map.keys().next().value is the key
   of the first entry. *)

limitBytes    == 10
MaxCacheSteps == 4
CacheKeys     == {"", "a", "b"}
BlobSizes     == {0, 4, 6, limitBytes + 1}

\* map.has(key)
has(c, key) == \E i \in 1 .. Len(c.entries) : c.entries[i].key = key

\* map.get(key), for a key the map has
EntryOf(c, key) == c.entries[CHOOSE i \in 1 .. Len(c.entries) : c.entries[i].key = key]

\* map.delete(key)
Without(entries, key) == SelectSeq(entries, LAMBDA e : e.key # key)

\* the sum of the sizes of the stored entries
RECURSIVE SizeSum(_)
SizeSum(entries) ==
    IF entries = <<>> THEN 0 ELSE Head(entries).size + SizeSum(Tail(entries))

\* evictIfNeeded: while over the limit, delete the oldest key; the loop
\* breaks when the oldest key is falsy, which the empty string is
RECURSIVE evictIfNeeded(_)
evictIfNeeded(c) ==
    IF c.totalSize > limitBytes /\ Len(c.entries) > 0
    THEN LET oldestKey == Head(c.entries).key
         IN  IF oldestKey = ""
             THEN c
             ELSE evictIfNeeded([entries   |-> Tail(c.entries),
                                 totalSize |-> c.totalSize - Head(c.entries).size])
    ELSE c

\* get(key): a hit moves the entry to the end of the Map
get(c, key) ==
    IF ~has(c, key) THEN c
    ELSE [c EXCEPT !.entries = Append(Without(c.entries, key), EntryOf(c, key))]

\* set(key, blob): sizes <= 0 or over the limit are ignored; an existing
\* entry is replaced; then evictIfNeeded()
set(c, key, size) ==
    IF size <= 0 \/ size > limitBytes THEN c
    ELSE LET removed == IF has(c, key)
                        THEN [entries   |-> Without(c.entries, key),
                              totalSize |-> c.totalSize - EntryOf(c, key).size]
                        ELSE c
         IN  evictIfNeeded([entries   |-> Append(removed.entries,
                                                 [key |-> key, size |-> size]),
                            totalSize |-> removed.totalSize + size])

\* delete(key)
delete(c, key) ==
    IF ~has(c, key) THEN c
    ELSE [entries   |-> Without(c.entries, key),
          totalSize |-> c.totalSize - EntryOf(c, key).size]

\* clear()
clear(c) == [entries |-> <<>>, totalSize |-> 0]

InitCache ==
    /\ lyrics = <<>>
    /\ currentTime = 0
    /\ activeIndex = -1
    /\ linesState = <<>>
    /\ scrollState = InitScrollState
    /\ now = 0
    /\ layout = [lineHeights |-> <<>>, containerHeight |-> 0, variant |-> "part_003"]
    /\ visualTime = Fin(0)
    /\ player = Stopped(0, 0)
    /\ seekCalls = <<>>
    /\ lyricLines = <<>>
    /\ viewport = [containerWidth |-> 0, height |-> 0, isMobile |-> FALSE]
    /\ drawn = {}
    /\ system = NewSpringSystem([k \in {"scrollY"} |-> 0])
    /\ moving = FALSE
    /\ steps = 0
    /\ pinned = {}
    /\ cache = NewCache
    /\ op = [name |-> "createSizeLimitedLRU", key |-> "", size |-> 0]

CacheCall(name, key, size, after) ==
    /\ steps < MaxCacheSteps
    /\ steps' = steps + 1
    /\ cache' = after
    /\ op' = [name |-> name, key |-> key, size |-> size]
    /\ UNCHANGED <<system, moving, lyrics, currentTime, activeIndex, linesState, scrollState,
                   now, pinned, layout, visualTime, player, seekCalls, lyricLines, viewport,
                   drawn>>

CacheGet(key) == CacheCall("get", key, 0, get(cache, key))

CacheSet(key, size) == CacheCall("set", key, size, set(cache, key, size))

CacheDelete(key) == CacheCall("delete", key, 0, delete(cache, key))

CacheClear == CacheCall("clear", "", 0, clear(cache))

NextCache ==
    \/ \E key \in CacheKeys : CacheGet(key)
    \/ \E key \in CacheKeys : \E size \in BlobSizes : CacheSet(key, size)
    \/ \E key \in CacheKeys : CacheDelete(key)
    \/ CacheClear

SpecCache == InitCache /\ [][NextCache]_vars

(* C30 as stated: after any sequence of get, set, delete and clear calls,
   totalSize equals the sum of the sizes of the stored entries and is at
   most limitBytes *)
C30_AsStated ==
    /\ cache.totalSize = SizeSum(cache.entries)
    /\ cache.totalSize <= limitBytes

\* the part of C30 that the code keeps: totalSize is the sum of the stored sizes
CacheSizeAccounted == cache.totalSize = SizeSum(cache.entries)
====
